---- MODULE Spec2Model ----
(***************************************************************************)
(* A model of dirschema: the hydration planner and applier                 *)
(* (internal/hydrate), the schema-guided filesystem walker                 *)
(* (internal/fswalk), the validation engine (internal/validate) and the    *)
(* command handlers of internal/cli that chain them.                       *)
(*                                                                         *)
(* Strings are sequences of one-character strings, so that suffix tests,   *)
(* joins and lexicographic comparisons are computed, not assumed.  The     *)
(* filesystem is a function from the lexical paths that exist (sequences   *)
(* of entry names below the root) to nodes; the root directory is the      *)
(* empty path and absolute link texts ("/...") are resolved from it.       *)
(***************************************************************************)
EXTENDS Integers, Sequences, FiniteSets, TLC

VARIABLES
    fs,        \* the filesystem below the root
    schema,    \* the compiled schema handed to every component
    plan,      \* hydrate.Plan.Ops of the last BuildPlan (or a caller-made plan)
    planErr,   \* whether the last BuildPlan returned an error
    planFs,    \* the filesystem BuildPlan looked at
    applyOpts, \* hydrate.ApplyOptions of the last Apply
    applyErr,  \* whether the last Apply returned an error
    applyFs,   \* the filesystem as it was when the last Apply began
    walkOpts,  \* fswalk.Options of the last walk
    walkOrc,   \* the map iteration orders the last walk met
    walkOut,   \* outcome of the last walk
    prevWalk,  \* outcome of the walk before it on the same snapshot
    result,    \* validate.Result of the last Validate
    exitCode,  \* exit code of the last command handler
    dsl,       \* the DSL document of the spec file, when the spec is DSL
    pc         \* what ran last

vars == <<fs, schema, plan, planErr, planFs, applyOpts, applyErr, applyFs,
          walkOpts, walkOrc, walkOut, prevWalk, result, exitCode, dsl, pc>>

-----------------------------------------------------------------------------
(* Strings                                                                 *)

\* The characters the model's strings are made of, in byte order.
Alphabet ==
    << "!", "#", "$", "%", "'", "*", "-", ".", "/",
       "0", "1", "2", "3", "4", "5", "6", "7", "8", "9", "?",
       "A", "C", "D", "E", "M", "O", "P", "R", "[", "\\", "]", "^", "_",
       "a", "b", "c", "d", "e", "f", "g", "h", "i", "j", "k", "l", "m",
       "n", "o", "p", "q", "r", "s", "t", "u", "v", "w", "x", "y", "z", "~" >>

Ord(c) == CHOOSE i \in 1..Len(Alphabet) : Alphabet[i] = c

\* Go's s < t on strings: bytewise lexicographic order.
RECURSIVE StrLess(_, _)
StrLess(s, t) ==
    IF t = <<>> THEN FALSE
    ELSE IF s = <<>> THEN TRUE
    ELSE IF s[1] # t[1] THEN Ord(s[1]) < Ord(t[1])
    ELSE StrLess(Tail(s), Tail(t))

HasSuffix(s, suf) ==
    /\ Len(s) >= Len(suf)
    /\ SubSeq(s, Len(s) - Len(suf) + 1, Len(s)) = suf

TrimSuffix(s, suf) ==
    IF HasSuffix(s, suf) THEN SubSeq(s, 1, Len(s) - Len(suf)) ELSE s

\* sort.Strings, and the sorted entry order of walkDirInner.
RECURSIVE SortStrings(_)
SortStrings(set) ==
    IF set = {} THEN <<>>
    ELSE LET m == CHOOSE a \in set : \A b \in set \ {a} : StrLess(a, b)
         IN  <<m>> \o SortStrings(set \ {m})

Range(seq) == {seq[i] : i \in DOMAIN seq}

\* The path elements of a slash-separated string, empty elements dropped.
RECURSIVE SplitPath(_)
SplitPath(s) ==
    IF s = <<>> THEN <<>>
    ELSE IF s[1] = "/" THEN SplitPath(Tail(s))
    ELSE LET n == IF \E i \in DOMAIN s : s[i] = "/"
                  THEN (CHOOSE i \in DOMAIN s :
                            /\ s[i] = "/"
                            /\ \A j \in 1..(i - 1) : s[j] # "/") - 1
                  ELSE Len(s)
         IN  <<SubSeq(s, 1, n)>> \o SplitPath(SubSeq(s, n + 1, Len(s)))

IsAbs(s) == s # <<>> /\ s[1] = "/"

\* filepath.Clean on the paths the planner builds: trailing separators go.
RECURSIVE Clean(_)
Clean(s) ==
    IF Len(s) > 1 /\ s[Len(s)] = "/" THEN Clean(SubSeq(s, 1, Len(s) - 1)) ELSE s

\* filepath.Join(rel, name): empty elements are ignored, the result is cleaned.
Join(rel, name) ==
    IF rel = <<>> THEN Clean(name)
    ELSE IF name = <<>> THEN Clean(rel)
    ELSE Clean(rel \o <<"/">> \o name)

-----------------------------------------------------------------------------
(* The filesystem                                                          *)

\* How many symbolic links one path resolution follows before it gives up
\* with "too many links".
MaxLinks == 4

DirNode == [kind |-> "dir", data |-> <<>>]
FileNode(content) == [kind |-> "file", data |-> content]
LinkNode(text) == [kind |-> "link", data |-> text]

Missing == [ok |-> FALSE, exists |-> FALSE, path |-> <<>>]

\* The kernel's path walk from directory cur along the elements of rest.
\* follow says whether a link in the last element is followed (stat, open)
\* or not (lstat, unlink, symlink).  The result names the real path the walk
\* ends at and whether something exists there; ok is FALSE when an
\* intermediate element is missing or is no directory, or when the walk
\* follows more than MaxLinks links.
RECURSIVE Resolve(_, _, _, _, _)
Resolve(f, cur, rest, follow, fuel) ==
    IF rest = <<>> THEN [ok |-> TRUE, exists |-> TRUE, path |-> cur]
    ELSE LET p    == Append(cur, rest[1])
             last == Len(rest) = 1
         IN  IF p \notin DOMAIN f
             THEN IF last THEN [ok |-> TRUE, exists |-> FALSE, path |-> p]
                  ELSE Missing
             ELSE IF f[p].kind = "link" /\ (follow \/ ~last)
             THEN IF fuel = 0 \/ f[p].data = <<>> THEN Missing
                  ELSE Resolve(f,
                               IF IsAbs(f[p].data) THEN <<>> ELSE cur,
                               SplitPath(f[p].data) \o Tail(rest),
                               follow, fuel - 1)
             ELSE IF last THEN [ok |-> TRUE, exists |-> TRUE, path |-> p]
             ELSE IF f[p].kind = "dir" THEN Resolve(f, p, Tail(rest), follow, fuel)
             ELSE Missing

\* os.Stat: the node a path leads to, links followed; "none" on any error.
Stat(f, path) ==
    LET Kind(r) == IF r.ok /\ r.exists THEN f[r.path].kind ELSE "none"
    IN  Kind(Resolve(f, <<>>, path, TRUE, MaxLinks))

\* os.Lstat: the node at a path, a link in the last element not followed.
Lstat(f, path) ==
    LET Kind(r) == IF r.ok /\ r.exists THEN f[r.path].kind ELSE "none"
    IN  Kind(Resolve(f, <<>>, path, FALSE, MaxLinks))

\* filepath.EvalSymlinks: the real path, or an error.
EvalSymlinks(f, path) ==
    LET Real(r) == [ok |-> r.ok /\ r.exists, path |-> r.path]
    IN  Real(Resolve(f, <<>>, path, TRUE, MaxLinks))

\* os.Readlink of an entry of a real directory.
Readlink(f, path) == f[path].data

\* os.ReadFile through links.
ReadFile(f, path) ==
    LET Read(r) == IF r.ok /\ r.exists /\ f[r.path].kind = "file"
                   THEN [ok |-> TRUE, data |-> f[r.path].data]
                   ELSE [ok |-> FALSE, data |-> <<>>]
    IN  Read(Resolve(f, <<>>, path, TRUE, MaxLinks))

\* The entry names of a real directory.
ReadDir(f, dir) ==
    {p[Len(p)] : p \in {q \in DOMAIN f : Len(q) = Len(dir) + 1
                                          /\ SubSeq(q, 1, Len(dir)) = dir}}

Put(f, p, node) == [q \in DOMAIN f \cup {p} |-> IF q = p THEN node ELSE f[q]]
Del(f, p) == [q \in DOMAIN f \ {p} |-> f[q]]

\* os.Mkdir: the parent must lead to a directory and the name must be free.
Mkdir(f, path) ==
    LET Make(r) == IF r.ok /\ ~r.exists /\ path # <<>>
                   THEN [ok |-> TRUE, fs |-> Put(f, r.path, DirNode)]
                   ELSE [ok |-> FALSE, fs |-> f]
    IN  Make(Resolve(f, <<>>, path, FALSE, MaxLinks))

\* os.MkdirAll: succeed at once on a directory, fail on anything else that
\* exists, else make the parent, then the directory itself.
RECURSIVE MkdirAll(_, _)
MkdirAll(f, path) ==
    LET Made(up, mk) ==
            IF mk.ok THEN mk
            ELSE [ok |-> Lstat(up.fs, path) = "dir", fs |-> up.fs]
        Below(up) == IF ~up.ok THEN up ELSE Made(up, Mkdir(up.fs, path))
        Found(st) ==
            IF st = "dir" THEN [ok |-> TRUE, fs |-> f]
            ELSE IF st # "none" THEN [ok |-> FALSE, fs |-> f]
            ELSE Below(IF Len(path) > 1
                       THEN MkdirAll(f, SubSeq(path, 1, Len(path) - 1))
                       ELSE [ok |-> TRUE, fs |-> f])
    IN  Found(Stat(f, path))

\* os.WriteFile: open(O_WRONLY|O_CREATE|O_TRUNC), which follows links (also
\* a link whose target is missing: the target is created), then write.
WriteFile(f, path, content) ==
    LET Write(r) ==
            IF r.ok /\ path # <<>> /\ (~r.exists \/ f[r.path].kind = "file")
            THEN [ok |-> TRUE, fs |-> Put(f, r.path, FileNode(content))]
            ELSE [ok |-> FALSE, fs |-> f]
    IN  Write(Resolve(f, <<>>, path, TRUE, MaxLinks))

\* os.Symlink: the name must be free; an empty target is refused.
Symlink(f, target, path) ==
    LET Link(r) ==
            IF r.ok /\ ~r.exists /\ path # <<>> /\ target # <<>>
            THEN [ok |-> TRUE, fs |-> Put(f, r.path, LinkNode(target))]
            ELSE [ok |-> FALSE, fs |-> f]
    IN  Link(Resolve(f, <<>>, path, FALSE, MaxLinks))

\* os.Remove: unlink a file or link, rmdir an empty directory.
Remove(f, path) ==
    LET Unlink(r) ==
            IF /\ r.ok /\ r.exists /\ path # <<>>
               /\ (f[r.path].kind = "dir" => ReadDir(f, r.path) = {})
            THEN [ok |-> TRUE, fs |-> Del(f, r.path)]
            ELSE [ok |-> FALSE, fs |-> f]
    IN  Unlink(Resolve(f, <<>>, path, FALSE, MaxLinks))

-----------------------------------------------------------------------------
(* JSON values and schemas                                                 *)
(*                                                                         *)
(* An instance value is a tagged record: a boolean, a string, a number or  *)
(* an object (a function from key strings to values); directories and      *)
(* attribute objects are both objects, as in the Go maps.  A schema is a   *)
(* record holding the keywords it states; properties and patternProperties *)
(* are functions from key strings to schemas, required is a sequence.      *)

JBool(b) == [k |-> "bool", v |-> b]
JStr(s) == [k |-> "str", v |-> s]
JNum(n) == [k |-> "num", v |-> n]
JObj(m) == [k |-> "obj", v |-> m]
JTrue == JBool(TRUE)
JNull == [k |-> "null", v |-> <<>>]
JList(items) == [k |-> "list", v |-> items]

EmptyMap == <<>>

Has(s, kw) == kw \in DOMAIN s

kSize == <<"s", "i", "z", "e">>
kSha256 == <<"s", "h", "a", "2", "5", "6">>
kContent == <<"c", "o", "n", "t", "e", "n", "t">>
kMode == <<"m", "o", "d", "e">>
kSymlink == <<"s", "y", "m", "l", "i", "n", "k">>
kDefaultContent ==
    <<"d", "e", "f", "a", "u", "l", "t", "C", "o", "n", "t", "e", "n", "t">>
kOverwritable == <<"o", "v", "e", "r", "w", "r", "i", "t", "a", "b", "l", "e">>

-----------------------------------------------------------------------------
(* internal/hydrate: the plan                                              *)

NoContent == [set |-> FALSE, val |-> <<>>]
SomeContent(c) == [set |-> TRUE, val |-> c]

Op(kind, rel, content, target, overwrite) ==
    [Kind |-> kind, Path |-> SplitPath(rel), RelPath |-> rel,
     Content |-> content, Target |-> target, Overwrite |-> overwrite]

\* requiredKeys that takes the patterns of the level for required names.
requiredKeysWithPatterns(s) ==
    SortStrings((IF Has(s, "required") THEN Range(s.required) ELSE {})
                    \cup (IF Has(s, "patternProperties")
                          THEN DOMAIN s.patternProperties ELSE {}))

requiredKeys(s) ==
    IF Has(s, "required") THEN SortStrings(Range(s.required)) ELSE <<>>

pathExists(f, path) == Stat(f, path) # "none"

isFileDescriptorProperties(props) ==
    /\ \A key \in DOMAIN props :
           key \in {kSize, kSha256, kContent, kMode, kDefaultContent,
                    kOverwritable, kSymlink}
    /\ DOMAIN props # {}

isDirectorySchema(s, name) ==
    IF HasSuffix(name, <<"/">>) THEN TRUE
    ELSE IF ~Has(s, "properties") THEN FALSE
    ELSE IF \E key \in DOMAIN s.properties : HasSuffix(key, <<"/">>) THEN TRUE
    ELSE ~isFileDescriptorProperties(s.properties)

overwritableFromSchema(s) ==
    IF Has(s, "overwritable") THEN s.overwritable ELSE FALSE

\* [err, ok, target]: a symlink leaf needs a literal string target.
symlinkTargetFromSchema(s) ==
    IF ~Has(s, "properties") \/ kSymlink \notin DOMAIN s.properties
    THEN [err |-> FALSE, ok |-> FALSE, target |-> <<>>]
    ELSE LET raw == s.properties[kSymlink]
         IN  IF ~Has(raw, "const") \/ raw.const.k # "str"
             THEN [err |-> TRUE, ok |-> FALSE, target |-> <<>>]
             ELSE [err |-> FALSE, ok |-> TRUE, target |-> raw.const.v]

\* fileDefaults that never takes the content from defaultContent.
fileDefaultsNoContent(s) ==
    [content |-> NoContent, overwrite |-> overwritableFromSchema(s)]

\* The content to write and the overwrite flag of a file leaf.
fileDefaults(s) ==
    [content |-> IF Has(s, "defaultContent") THEN SomeContent(s.defaultContent)
                 ELSE NoContent,
     overwrite |-> overwritableFromSchema(s)]

\* The operations for the required entries of s, in required-name order;
\* todo is what is left of requiredKeys(s).
RECURSIVE collectFrom(_, _, _, _)
collectOps(f, s, rel) == collectFrom(f, s, rel, requiredKeys(s))
collectFrom(f, s, rel, todo) ==
    IF todo = <<>> THEN [ok |-> TRUE, ops |-> <<>>]
    ELSE LET name == todo[1]
             Failed == [ok |-> FALSE, ops |-> <<>>]
             Dir(dirRel, sub, rest) ==
                 IF ~sub.ok \/ ~rest.ok THEN Failed
                 ELSE [ok |-> TRUE,
                       ops |-> (IF pathExists(f, SplitPath(dirRel)) THEN <<>>
                                ELSE <<Op("mkdir", dirRel, NoContent, <<>>,
                                          FALSE)>>)
                               \o sub.ops \o rest.ops]
             Leaf(sl, op, rest) ==
                 IF sl.err \/ ~rest.ok THEN Failed
                 ELSE [ok |-> TRUE,
                       ops |-> (IF pathExists(f, op.Path) THEN <<>>
                                ELSE <<op>>) \o rest.ops]
             File(childRel, child, fd) ==
                 Op("writefile", childRel, fd.content, <<>>, fd.overwrite)
             Link(childRel, child, sl) ==
                 Op("symlink", childRel, NoContent, sl.target,
                    overwritableFromSchema(child))
             Entry(childRel, child, sl, dirRel, rest) ==
                 IF isDirectorySchema(child, name)
                 THEN Dir(dirRel,
                          collectFrom(f, child, dirRel, requiredKeys(child)),
                          rest)
                 ELSE Leaf(sl,
                           IF sl.ok THEN Link(childRel, child, sl)
                           ELSE File(childRel, child, fileDefaults(child)),
                           rest)
             Child(childRel, child) ==
                 Entry(childRel, child, symlinkTargetFromSchema(child),
                       TrimSuffix(childRel, <<"/">>),
                       collectFrom(f, s, rel, Tail(todo)))
         IN  IF ~Has(s, "properties") \/ name \notin DOMAIN s.properties
             THEN Failed
             ELSE Child(Join(rel, name), s.properties[name])

\* OpKind values compare as strings: "mkdir" < "symlink" < "writefile".
KindRank(kind) ==
    CASE kind = "mkdir" -> 1 [] kind = "symlink" -> 2 [] kind = "writefile" -> 3

\* opLess with the RelPath order turned round.
opLessDescending(a, b) ==
    IF a.RelPath = b.RelPath THEN KindRank(a.Kind) < KindRank(b.Kind)
    ELSE StrLess(b.RelPath, a.RelPath)

opLess(a, b) ==
    IF a.RelPath = b.RelPath THEN KindRank(a.Kind) < KindRank(b.Kind)
    ELSE StrLess(a.RelPath, b.RelPath)

\* BuildPlan without its stableSortOps: the operations as collected.
stableSortOpsSkipped(ops) == ops

\* sort.Slice with opLess.
RECURSIVE stableSortOps(_)
stableSortOps(ops) ==
    IF ops = <<>> THEN <<>>
    ELSE LET i == CHOOSE i \in DOMAIN ops :
                      \A j \in DOMAIN ops : ~opLess(ops[j], ops[i])
         IN  <<ops[i]>> \o stableSortOps(SubSeq(ops, 1, i - 1)
                                          \o SubSeq(ops, i + 1, Len(ops)))

BuildPlan(f, s) ==
    LET Sorted(r) == IF r.ok THEN [ok |-> TRUE, ops |-> stableSortOps(r.ops)]
                     ELSE [ok |-> FALSE, ops |-> <<>>]
    IN  Sorted(collectOps(f, s, <<>>))

-----------------------------------------------------------------------------
(* internal/hydrate: Apply                                                 *)

ParentOf(path) == SubSeq(path, 1, Len(path) - 1)

\* applyWrite with the parent directories made before DryRun is looked at.
applyWriteMkdirFirst(f, op, opts) ==
    LET Write(md) ==
            IF ~md.ok THEN md
            ELSE IF opts.DryRun THEN [ok |-> TRUE, fs |-> md.fs]
            ELSE IF Stat(md.fs, op.Path) # "none"
                    /\ (~opts.Force \/ ~op.Overwrite)
            THEN [ok |-> FALSE, fs |-> md.fs]
            ELSE WriteFile(md.fs, op.Path,
                           IF op.Content.set THEN op.Content.val ELSE <<>>)
    IN  Write(MkdirAll(f, ParentOf(op.Path)))

applyWrite(f, op, opts) ==
    LET Write(md) ==
            IF ~md.ok THEN md
            ELSE IF Stat(md.fs, op.Path) # "none"
                    /\ (~opts.Force \/ ~op.Overwrite)
            THEN [ok |-> FALSE, fs |-> md.fs]
            ELSE WriteFile(md.fs, op.Path,
                           IF op.Content.set THEN op.Content.val ELSE <<>>)
    IN  IF opts.DryRun THEN [ok |-> TRUE, fs |-> f]
        ELSE Write(MkdirAll(f, ParentOf(op.Path)))

applySymlink(f, op, opts) ==
    LET Replace(rm) ==
            IF ~rm.ok THEN rm ELSE Symlink(rm.fs, op.Target, op.Path)
        Link(md) ==
            IF ~md.ok THEN md
            ELSE IF Lstat(md.fs, op.Path) # "none"
            THEN IF ~opts.Force \/ ~op.Overwrite
                 THEN [ok |-> FALSE, fs |-> md.fs]
                 ELSE Replace(Remove(md.fs, op.Path))
            ELSE Symlink(md.fs, op.Target, op.Path)
    IN  IF opts.DryRun THEN [ok |-> TRUE, fs |-> f]
        ELSE Link(MkdirAll(f, ParentOf(op.Path)))

applyOp(f, op, opts) ==
    CASE op.Kind = "mkdir" ->
             IF opts.DryRun THEN [ok |-> TRUE, fs |-> f]
             ELSE MkdirAll(f, op.Path)
      [] op.Kind = "writefile" -> applyWrite(f, op, opts)
      [] op.Kind = "symlink" -> applySymlink(f, op, opts)
      [] OTHER -> [ok |-> FALSE, fs |-> f]

\* Apply runs the operations in plan order and stops at the first error;
\* what the earlier operations did stays done.
RECURSIVE Apply(_, _, _)
Apply(f, ops, opts) ==
    IF ops = <<>> THEN [ok |-> TRUE, fs |-> f]
    ELSE LET Then(r) == IF ~r.ok THEN r ELSE Apply(r.fs, Tail(ops), opts)
         IN  Then(applyOp(f, ops[1], opts))

-----------------------------------------------------------------------------
(* Regular expressions (Go's regexp.MatchString on the patterns the DSL    *)
(* compiler emits: ^, $, ., x*, \x and literals)                           *)

RECURSIVE MatchHere(_, _)
MatchHere(re, s) ==
    IF re = <<>> THEN TRUE
    ELSE IF re = <<"$">> THEN s = <<>>
    ELSE LET esc       == re[1] = "\\" /\ Len(re) >= 2
             alen      == IF esc THEN 2 ELSE 1
             AtomOk(c) == IF esc THEN c = re[2]
                          ELSE IF re[1] = "." THEN TRUE
                          ELSE c = re[1]
             rest      == SubSeq(re, alen + 1, Len(re))
         IN  IF rest # <<>> /\ rest[1] = "*"
             THEN \E n \in 0..Len(s) :
                      /\ \A i \in 1..n : AtomOk(s[i])
                      /\ MatchHere(Tail(rest), SubSeq(s, n + 1, Len(s)))
             ELSE s # <<>> /\ AtomOk(s[1]) /\ MatchHere(rest, Tail(s))

MatchString(re, s) ==
    IF re # <<>> /\ re[1] = "^" THEN MatchHere(Tail(re), s)
    ELSE \E i \in 0..Len(s) : MatchHere(re, SubSeq(s, i + 1, Len(s)))

-----------------------------------------------------------------------------
(* internal/fswalk                                                         *)

\* The depth of nested directory walks at which a walk is taken to recurse
\* without bound (the Go runtime would exhaust its stack).
MaxWalkDepth == 6

NilSchema == [nil |-> TRUE]
IsNil(s) == Has(s, "nil")

WalkErr(e) == [ok |-> FALSE, err |-> e, val |-> JTrue]
WalkOk(v) == [ok |-> TRUE, err |-> "none", val |-> v]

\* sha256 + hex of the file's bytes, kept symbolic: a digest names its
\* preimage and differs from it.
Sha256Hex(content) == <<"0">> \o content

schemaProps(s) ==
    IF ~IsNil(s) /\ Has(s, "properties") THEN s.properties ELSE EmptyMap
schemaPatterns(s) ==
    IF ~IsNil(s) /\ Has(s, "patternProperties") THEN s.patternProperties
    ELSE EmptyMap

\* One range over a patternProperties map yields its keys in an order Go
\* does not fix.  ord ranks every pattern a schema may hold; a range over
\* patterns yields its keys by that rank.  FirstMatch is the first key the
\* range yields whose pattern matches key (0: none does).
FirstMatch(patterns, ord, key) ==
    LET Least(hits) ==
            IF hits = {} THEN 0 ELSE CHOOSE i \in hits : \A j \in hits : i <= j
    IN  Least({i \in DOMAIN ord :
                  ord[i] \in DOMAIN patterns /\ MatchString(ord[i], key)})

\* schemaExpectsDir: the child schema for name+"/", by exact name, else by
\* the first pattern the iteration yields that matches.
schemaExpectsDir(name, props, patterns, ord) ==
    LET dirKey == name \o <<"/">>
        ByPattern(hit) ==
            IF hit # 0 THEN [ok |-> TRUE, cs |-> patterns[ord[hit]]]
            ELSE [ok |-> FALSE, cs |-> NilSchema]
    IN  IF dirKey \in DOMAIN props THEN [ok |-> TRUE, cs |-> props[dirKey]]
        ELSE ByPattern(FirstMatch(patterns, ord, dirKey))

\* schemaLookupFile: the schema of a non-directory entry.
schemaLookupFile(name, props, patterns, ord) ==
    LET ByPattern(hit) == IF hit # 0 THEN patterns[ord[hit]] ELSE NilSchema
    IN  IF HasSuffix(name, <<"/">>) THEN NilSchema
        ELSE IF name \in DOMAIN props THEN props[name]
        ELSE ByPattern(FirstMatch(patterns, ord, name))

schemaExpectsSymlink(name, props, patterns, ord) ==
    LET Expects(raw) ==
            /\ ~IsNil(raw)
            /\ Has(raw, "properties")
            /\ kSymlink \in DOMAIN raw.properties
    IN  Expects(schemaLookupFile(name, props, patterns, ord))

schemaExpectsFile(name, props, patterns, ord) ==
    LET Expects(raw) ==
            /\ ~IsNil(raw)
            /\ ~(Has(raw, "properties") /\ kSymlink \in DOMAIN raw.properties)
    IN  Expects(schemaLookupFile(name, props, patterns, ord))

\* fileValue cutting an oversized file down to MaxContentBytes.
fileValueTruncating(f, path, opts) ==
    LET Cut(data) ==
            IF opts.MaxContentBytes > 0 /\ Len(data) > opts.MaxContentBytes
            THEN SubSeq(data, 1, opts.MaxContentBytes) ELSE data
        Attrs(rd) ==
            IF ~rd.ok THEN WalkErr("io")
            ELSE WalkOk(JObj(
                     (IF opts.IncludeSize THEN (kSize :> JNum(Len(rd.data)))
                      ELSE EmptyMap)
                     @@ (IF opts.IncludeSHA256
                         THEN (kSha256 :> JStr(Sha256Hex(Cut(rd.data))))
                         ELSE EmptyMap)
                     @@ (IF opts.IncludeContent
                         THEN (kContent :> JStr(Cut(rd.data)))
                         ELSE EmptyMap)))
    IN  IF ~opts.IncludeSize /\ ~opts.IncludeSHA256 /\ ~opts.IncludeContent
        THEN WalkOk(JTrue)
        ELSE Attrs(ReadFile(f, path))

\* fileValue: true, or the requested attributes of a file.
fileValue(f, path, opts) ==
    LET Attrs(rd) ==
            LET size == IF opts.IncludeSize
                        THEN (kSize :> JNum(Len(rd.data))) ELSE EmptyMap
                sha  == IF opts.IncludeSHA256
                        THEN (kSha256 :> JStr(Sha256Hex(rd.data))) ELSE EmptyMap
                cont == IF opts.IncludeContent
                        THEN (kContent :> JStr(rd.data)) ELSE EmptyMap
            IN  IF ~rd.ok THEN WalkErr("io")
                ELSE IF /\ opts.IncludeSHA256 \/ opts.IncludeContent
                        /\ opts.MaxContentBytes > 0
                        /\ Len(rd.data) > opts.MaxContentBytes
                THEN WalkErr("too-big")
                ELSE WalkOk(JObj(size @@ sha @@ cont))
    IN  IF ~opts.IncludeSize /\ ~opts.IncludeSHA256 /\ ~opts.IncludeContent
        THEN WalkOk(JTrue)
        ELSE Attrs(ReadFile(f, path))

SymlinkValue(f, real) == JObj(kSymlink :> JStr(Readlink(f, real)))

\* What one directory entry adds to the output map: an error, nothing
\* (put = FALSE), or a key with its value.
Skip == [err |-> "none", put |-> FALSE, key |-> <<>>, val |-> JTrue]
Fail(e) == [err |-> e, put |-> FALSE, key |-> <<>>, val |-> JTrue]
Emit(key, r) ==
    IF r.ok THEN [err |-> "none", put |-> TRUE, key |-> key, val |-> r.val]
    ELSE Fail(r.err)

\* What a symlink handler returns: the step, and whether it handled the
\* entry (it did unless it failed).
Handled(step) == [handled |-> step.err = "none", step |-> step]
NotHandled(step) == [handled |-> FALSE, step |-> step]

RECURSIVE walkDirInner(_, _, _, _, _, _, _)
RECURSIVE walkEntries(_, _, _, _, _, _, _, _, _, _)
RECURSIVE handleSchemaSymlink(_, _, _, _, _, _, _, _)
RECURSIVE handleFollowSymlink(_, _, _, _, _, _, _)

\* handleSchemaSymlink with a non-directory target under a directory
\* expectation falling through to the symlink and file rules.
handleSchemaSymlinkFallThrough(f, name, full, opts, s, visited, orc, depth) ==
    LET props    == schemaProps(s)
        patterns == schemaPatterns(s)
        ToFile(resolved) ==
            IF ~resolved.ok THEN NotHandled(Fail("resolve"))
            ELSE IF f[resolved.path].kind = "dir" THEN NotHandled(Skip)
            ELSE Handled(Emit(name, fileValue(f, resolved.path, opts)))
        Others ==
            IF schemaExpectsSymlink(name, props, patterns, orc.sym)
            THEN Handled(Emit(name, WalkOk(SymlinkValue(f,
                         Resolve(f, <<>>, full, FALSE, MaxLinks).path))))
            ELSE IF schemaExpectsFile(name, props, patterns, orc.file)
            THEN ToFile(EvalSymlinks(f, full))
            ELSE NotHandled(Skip)
        ToDir(ed, resolved) ==
            IF ed.ok /\ ~resolved.ok THEN NotHandled(Fail("resolve"))
            ELSE IF ed.ok /\ f[resolved.path].kind = "dir"
            THEN Handled(Emit(name \o <<"/">>,
                     walkDirInner(f, full, opts, ed.cs, visited, orc, depth)))
            ELSE Others
    IN  ToDir(schemaExpectsDir(name, props, patterns, orc.dir),
              EvalSymlinks(f, full))

\* handleSchemaSymlink: [handled, step].  full is the lexical path of the
\* link, orc the iteration orders of the three pattern lookups.
handleSchemaSymlink(f, name, full, opts, s, visited, orc, depth) ==
    LET props    == schemaProps(s)
        patterns == schemaPatterns(s)
        ToFile(resolved) ==
            IF ~resolved.ok THEN NotHandled(Fail("resolve"))
            ELSE IF f[resolved.path].kind = "dir" THEN NotHandled(Skip)
            ELSE Handled(Emit(name, fileValue(f, resolved.path, opts)))
        Others ==
            IF schemaExpectsSymlink(name, props, patterns, orc.sym)
            THEN Handled(Emit(name, WalkOk(SymlinkValue(f,
                         Resolve(f, <<>>, full, FALSE, MaxLinks).path))))
            ELSE IF schemaExpectsFile(name, props, patterns, orc.file)
            THEN ToFile(EvalSymlinks(f, full))
            ELSE NotHandled(Skip)
        ToDir(ed, resolved) ==
            IF ~ed.ok THEN Others
            ELSE IF ~resolved.ok THEN NotHandled(Fail("resolve"))
            ELSE IF f[resolved.path].kind # "dir" THEN NotHandled(Skip)
            ELSE Handled(Emit(name \o <<"/">>,
                     walkDirInner(f, full, opts, ed.cs, visited, orc, depth)))
    IN  ToDir(schemaExpectsDir(name, props, patterns, orc.dir),
              EvalSymlinks(f, full))

\* handleFollowSymlink: follow the link whatever the schema says.
handleFollowSymlink(f, name, full, opts, visited, orc, depth) ==
    LET Follow(resolved) ==
            IF ~resolved.ok THEN Fail("resolve")
            ELSE IF f[resolved.path].kind = "dir"
            THEN Emit(name \o <<"/">>,
                      walkDirInner(f, full, opts, NilSchema, visited, orc,
                                   depth))
            ELSE Emit(name, fileValue(f, resolved.path, opts))
    IN  Follow(EvalSymlinks(f, full))

\* walkEntries with the real path of a walked subdirectory left in visited
\* when the subtree returns.
walkEntriesKeepVisited(f, dir, real, opts, s, visited, orc, depth, todo, out) ==
    IF todo = <<>> THEN WalkOk(JObj(out))
    ELSE LET name == todo[1]
             full == Append(dir, name)
             node == f[Append(real, name)]
             Link(hs) ==
                 IF hs.step.err # "none" \/ hs.handled THEN hs.step
                 ELSE IF opts.SymlinkPolicy = "follow"
                 THEN handleFollowSymlink(f, name, full, opts, visited, orc,
                                          depth)
                 ELSE IF opts.SymlinkPolicy = "ignore" THEN Skip
                 ELSE IF opts.SymlinkPolicy = "record"
                 THEN Emit(name, WalkOk(SymlinkValue(f, Append(real, name))))
                 ELSE Fail("symlink")
             Entry ==
                 IF node.kind = "link"
                 THEN Link(IF IsNil(s) THEN NotHandled(Skip)
                           ELSE handleSchemaSymlink(f, name, full, opts, s,
                                                    visited, orc, depth))
                 ELSE IF node.kind = "dir"
                 THEN Emit(name \o <<"/">>,
                           walkDirInner(f, full, opts,
                               schemaExpectsDir(name, schemaProps(s),
                                   schemaPatterns(s), orc.dir).cs,
                               visited, orc, depth))
                 ELSE Emit(name, fileValue(f, full, opts))
             Then(step) ==
                 IF step.err # "none" THEN WalkErr(step.err)
                 ELSE walkEntries(f, dir, real, opts, s,
                                  IF step.put /\ HasSuffix(step.key, <<"/">>)
                                  THEN visited
                                           \cup {EvalSymlinks(f, full).path}
                                  ELSE visited,
                                  orc, depth, Tail(todo),
                                  IF step.put THEN (step.key :> step.val) @@ out
                                  ELSE out)
         IN  Then(Entry)

\* The body of walkDirInner's loop for the entries todo of directory dir
\* (real path real), in order; out is the map built so far.
walkEntries(f, dir, real, opts, s, visited, orc, depth, todo, out) ==
    IF todo = <<>> THEN WalkOk(JObj(out))
    ELSE LET name == todo[1]
             full == Append(dir, name)
             node == f[Append(real, name)]
             Link(hs) ==
                 IF hs.step.err # "none" \/ hs.handled THEN hs.step
                 ELSE IF opts.SymlinkPolicy = "follow"
                 THEN handleFollowSymlink(f, name, full, opts, visited, orc,
                                          depth)
                 ELSE IF opts.SymlinkPolicy = "ignore" THEN Skip
                 ELSE IF opts.SymlinkPolicy = "record"
                 THEN Emit(name, WalkOk(SymlinkValue(f, Append(real, name))))
                 ELSE Fail("symlink")
             Entry ==
                 IF node.kind = "link"
                 THEN Link(IF IsNil(s) THEN NotHandled(Skip)
                           ELSE handleSchemaSymlink(f, name, full, opts, s,
                                                    visited, orc, depth))
                 ELSE IF node.kind = "dir"
                 THEN Emit(name \o <<"/">>,
                           walkDirInner(f, full, opts,
                               schemaExpectsDir(name, schemaProps(s),
                                   schemaPatterns(s), orc.dir).cs,
                               visited, orc, depth))
                 ELSE Emit(name, fileValue(f, full, opts))
             Then(step) ==
                 IF step.err # "none" THEN WalkErr(step.err)
                 ELSE walkEntries(f, dir, real, opts, s, visited, orc, depth,
                                  Tail(todo),
                                  IF step.put THEN (step.key :> step.val) @@ out
                                  ELSE out)
         IN  Then(Entry)

\* walkDirInner without the look at visited.
walkDirInnerNoVisited(f, dir, opts, s, visited, orc, depth) ==
    LET Enter(real) ==
            IF depth = 0 THEN WalkErr("overflow")
            ELSE IF ~real.ok THEN WalkErr("resolve")
            ELSE IF f[real.path].kind # "dir" THEN WalkErr("io")
            ELSE walkEntries(f, dir, real.path, opts, s,
                             visited \cup {real.path}, orc, depth - 1,
                             SortStrings(ReadDir(f, real.path)), EmptyMap)
    IN  Enter(EvalSymlinks(f, dir))

\* walkDirInner: visited holds the real paths of the directories being
\* walked; depth counts the nested calls still allowed.
walkDirInner(f, dir, opts, s, visited, orc, depth) ==
    LET Enter(real) ==
            IF depth = 0 THEN WalkErr("overflow")
            ELSE IF ~real.ok THEN WalkErr("resolve")
            ELSE IF real.path \in visited THEN WalkErr("cycle")
            ELSE IF f[real.path].kind # "dir" THEN WalkErr("io")
            ELSE walkEntries(f, dir, real.path, opts, s,
                             visited \cup {real.path}, orc, depth - 1,
                             SortStrings(ReadDir(f, real.path)), EmptyMap)
    IN  Enter(EvalSymlinks(f, dir))

\* fswalk.WalkWithSchema(root, opts, schema); Walk is the same with no
\* schema.
WalkWithSchema(f, opts, s, orc) ==
    IF Stat(f, <<>>) # "dir" THEN WalkErr("io")
    ELSE walkDirInner(f, <<>>, opts, s, {}, orc, MaxWalkDepth)

NoOrc == [dir |-> <<>>, sym |-> <<>>, file |-> <<>>]
Walk(f, opts) == WalkWithSchema(f, opts, NilSchema, NoOrc)

-----------------------------------------------------------------------------
(* The JSON Schema validator behind compiled.Validate (validate.go:42):    *)
(* github.com/santhosh-tekuri/jsonschema/v5, for the keywords type, const, *)
(* required, properties, propertyNames, patternProperties, pattern, not,   *)
(* allOf and oneOf                                                         *)

Digits == <<"0", "1", "2", "3", "4", "5", "6", "7", "8", "9">>

\* One character of a JSON Pointer token: ~ and / by RFC 6901, then
\* url.PathEscape, which percent-encodes the pattern characters.
EscapeChar(c) ==
    CASE c = "~" -> <<"~", "0">>
      [] c = "/" -> <<"~", "1">>
      [] c = "^" -> <<"%", "5", "E">>
      [] c = "*" -> <<"%", "2", "A">>
      [] c = "\\" -> <<"%", "5", "C">>
      [] c = "#" -> <<"%", "2", "3">>
      [] c = "%" -> <<"%", "2", "5">>
      [] c = "'" -> <<"%", "2", "7">>
      [] OTHER -> <<c>>

RECURSIVE escape(_)
escape(token) ==
    IF token = <<>> THEN <<>> ELSE EscapeChar(token[1]) \o escape(Tail(token))

\* joinPtr: a pointer extended by one (escaped) token.
joinPtr(ptr, token) == ptr \o <<"/">> \o token

tType == <<"t", "y", "p", "e">>
tConst == <<"c", "o", "n", "s", "t">>
tRequired == <<"r", "e", "q", "u", "i", "r", "e", "d">>
tProperties == <<"p", "r", "o", "p", "e", "r", "t", "i", "e", "s">>
tPatternProperties ==
    <<"p", "a", "t", "t", "e", "r", "n", "P", "r", "o", "p", "e", "r", "t",
      "i", "e", "s">>
tOneOf == <<"o", "n", "e", "O", "f">>
tAllOf == <<"a", "l", "l", "O", "f">>
tNot == <<"n", "o", "t">>
tPropertyNames ==
    <<"p", "r", "o", "p", "e", "r", "t", "y", "N", "a", "m", "e", "s">>
tPattern == <<"p", "a", "t", "t", "e", "r", "n">>

\* The location of the schema resource, up to the fragment.
SchemaURL ==
    <<"s", "c", "h", "e", "m", "a", ".", "j", "s", "o", "n", "#">>

\* jsonschema.ValidationError
ValidationError(vloc, kloc, msg, causes) ==
    [InstanceLocation |-> vloc,
     KeywordLocation |-> kloc,
     AbsoluteKeywordLocation |-> SchemaURL \o kloc,
     Message |-> msg,
     Causes |-> causes]

jsonType(v) ==
    CASE v.k = "bool" -> "boolean"
      [] v.k = "str" -> "string"
      [] v.k = "num" -> "number"
      [] v.k = "obj" -> "object"

\* The required names the object v lacks, in the order required lists them.
RECURSIVE missingNames(_, _)
missingNames(req, v) ==
    IF req = <<>> THEN <<>>
    ELSE (IF req[1] \in DOMAIN v.v THEN <<>> ELSE <<req[1]>>)
             \o missingNames(Tail(req), v)

RECURSIVE validate(_, _, _, _)
RECURSIVE propertiesErrors(_, _, _, _, _)
RECURSIVE patternErrors(_, _, _, _, _, _)
RECURSIVE oneOfCauses(_, _, _, _, _)
RECURSIVE allOfErrors(_, _, _, _, _)
RECURSIVE propertyNamesErrors(_, _, _, _, _)

\* The errors of the properties of v that s.properties names (todo: the
\* names still to look at).
propertiesErrors(s, v, vloc, kloc, todo) ==
    IF todo = <<>> THEN <<>>
    ELSE LET pname == todo[1]
         IN  (IF pname \in DOMAIN v.v
              THEN validate(s.properties[pname], v.v[pname],
                            joinPtr(vloc, escape(pname)),
                            joinPtr(joinPtr(kloc, tProperties), escape(pname)))
              ELSE <<>>)
                 \o propertiesErrors(s, v, vloc, kloc, Tail(todo))

\* The errors of the properties of v whose name matches pattern (names:
\* the names of v still to look at).
patternErrors(s, v, vloc, kloc, pattern, names) ==
    IF names = <<>> THEN <<>>
    ELSE LET pname == names[1]
         IN  (IF MatchString(pattern, pname)
              THEN validate(s.patternProperties[pattern], v.v[pname],
                            joinPtr(vloc, escape(pname)),
                            joinPtr(joinPtr(kloc, tPatternProperties),
                                    escape(pattern)))
              ELSE <<>>)
                 \o patternErrors(s, v, vloc, kloc, pattern, Tail(names))

\* For each branch of s.oneOf from index i on, the errors of v against it.
oneOfCauses(s, v, vloc, kloc, i) ==
    IF i > Len(s.oneOf) THEN <<>>
    ELSE <<validate(s.oneOf[i], v, vloc,
                    joinPtr(joinPtr(kloc, tOneOf), <<Digits[i]>>))>>
             \o oneOfCauses(s, v, vloc, kloc, i + 1)

\* For each branch of s.allOf from index i on that v fails, one "allOf
\* failed" error that wraps the branch's error.
allOfErrors(s, v, vloc, kloc, i) ==
    IF i > Len(s.allOf) THEN <<>>
    ELSE LET at == joinPtr(joinPtr(kloc, tAllOf), <<Digits[i]>>)
             Failed(e) ==
                 IF e = <<>> THEN <<>>
                 ELSE <<ValidationError(vloc, at,
                            [fmt |-> "allOf failed", args |-> <<>>], e)>>
         IN  Failed(validate(s.allOf[i], v, vloc, at))
                 \o allOfErrors(s, v, vloc, kloc, i + 1)

\* The errors of the property names of v (names: those still to look at)
\* against s.propertyNames; a name is validated as a string.
propertyNamesErrors(s, v, vloc, kloc, names) ==
    IF names = <<>> THEN <<>>
    ELSE validate(s.propertyNames, JStr(names[1]),
                  joinPtr(vloc, escape(names[1])),
                  joinPtr(kloc, tPropertyNames))
             \o propertyNamesErrors(s, v, vloc, kloc, Tail(names))

RECURSIVE Concat(_)
Concat(seqs) == IF seqs = <<>> THEN <<>> ELSE seqs[1] \o Concat(Tail(seqs))

RECURSIVE AllPatternErrors(_, _, _, _, _)
AllPatternErrors(s, v, vloc, kloc, pats) ==
    IF pats = <<>> THEN <<>>
    ELSE patternErrors(s, v, vloc, kloc, pats[1], SortStrings(DOMAIN v.v))
             \o AllPatternErrors(s, v, vloc, kloc, Tail(pats))

\* Schema.validate: no error (<<>>) or one error (a leaf, or a node whose
\* causes are the errors of the keywords).  A type mismatch returns at
\* once; the other keywords all add their errors.  required adds ONE error
\* that lists every missing name.
validate(s, v, vloc, kloc) ==
    IF Has(s, "type") /\ jsonType(v) # s.type
    THEN <<ValidationError(vloc, joinPtr(kloc, tType),
               [fmt |-> "expected %s, but got %s",
                args |-> <<s.type, jsonType(v)>>], <<>>)>>
    ELSE LET isObj == v.k = "obj"
             constE ==
                 IF Has(s, "const") /\ v # s.const
                 THEN <<ValidationError(vloc, joinPtr(kloc, tConst),
                            [fmt |-> "value must be %#v",
                             args |-> <<s.const>>], <<>>)>>
                 ELSE <<>>
             Required(missing) ==
                 IF missing # <<>>
                 THEN <<ValidationError(vloc, joinPtr(kloc, tRequired),
                            [fmt |-> "missing properties: %s",
                             args |-> missing], <<>>)>>
                 ELSE <<>>
             requiredE ==
                 Required(IF isObj /\ Has(s, "required")
                          THEN missingNames(s.required, v) ELSE <<>>)
             propsE ==
                 IF isObj /\ Has(s, "properties")
                 THEN propertiesErrors(s, v, vloc, kloc,
                                       SortStrings(DOMAIN s.properties))
                 ELSE <<>>
             namesE ==
                 IF isObj /\ Has(s, "propertyNames")
                 THEN propertyNamesErrors(s, v, vloc, kloc,
                                          SortStrings(DOMAIN v.v))
                 ELSE <<>>
             patsE ==
                 IF isObj /\ Has(s, "patternProperties")
                 THEN AllPatternErrors(s, v, vloc, kloc,
                                       SortStrings(DOMAIN s.patternProperties))
                 ELSE <<>>
             patternE ==
                 IF /\ v.k = "str"
                    /\ Has(s, "pattern")
                    /\ ~MatchString(s.pattern, v.v)
                 THEN <<ValidationError(vloc, joinPtr(kloc, tPattern),
                            [fmt |-> "does not match pattern %s",
                             args |-> <<s.pattern>>], <<>>)>>
                 ELSE <<>>
             NotFailed(e) ==
                 IF e # <<>> THEN <<>>
                 ELSE <<ValidationError(vloc, joinPtr(kloc, tNot),
                            [fmt |-> "not failed", args |-> <<>>], <<>>)>>
             notE ==
                 IF ~Has(s, "not") THEN <<>>
                 ELSE NotFailed(validate(s["not"], v, vloc, joinPtr(kloc, tNot)))
             allOfE ==
                 IF Has(s, "allOf") THEN allOfErrors(s, v, vloc, kloc, 1)
                 ELSE <<>>
             OneOf(branches, matched) ==
                 IF Cardinality(matched) = 1 THEN <<>>
                 ELSE IF matched = {}
                 THEN <<ValidationError(vloc, joinPtr(kloc, tOneOf),
                            [fmt |-> "oneOf failed", args |-> <<>>],
                            Concat(branches))>>
                 ELSE <<ValidationError(vloc, joinPtr(kloc, tOneOf),
                            [fmt |-> "valid against schemas at indexes %d and %d",
                             args |-> <<>>], <<>>)>>
             Branches(branches) ==
                 OneOf(branches, {i \in DOMAIN branches : branches[i] = <<>>})
             oneOfE ==
                 IF ~Has(s, "oneOf") THEN <<>>
                 ELSE Branches(oneOfCauses(s, v, vloc, kloc, 1))
             Wrap(errors) ==
                 IF Len(errors) <= 1 THEN errors
                 ELSE <<ValidationError(vloc, kloc,
                            [fmt |-> "", args |-> <<>>], errors)>>
         IN  Wrap(constE \o requiredE \o propsE \o namesE \o patsE
                      \o patternE \o notE \o allOfE \o oneOfE)

\* Schema.Validate: nil ([ok |-> TRUE]) or the error that wraps the causes.
SchemaValidate(s, v) ==
    LET Top(errs) ==
            IF errs = <<>> THEN [ok |-> TRUE, err |-> <<>>]
            ELSE [ok |-> FALSE,
                  err |-> ValidationError(<<>>, <<>>,
                              [fmt |-> "doesn't validate with %s",
                               args |-> <<SchemaURL>>], errs)]
    IN  Top(validate(s, v, <<>>, <<>>))

-----------------------------------------------------------------------------
(* internal/validate                                                       *)

normalizePath(path) == path

\* keywordFromLocation: the last element of a keyword location.
keywordFromLocation(location) ==
    LET parts == SplitPath(TrimSuffix(location, <<"/">>))
    IN  IF parts = <<>> THEN <<>> ELSE parts[Len(parts)]

schemaPath(e) ==
    IF e.AbsoluteKeywordLocation # <<>> THEN e.AbsoluteKeywordLocation
    ELSE e.KeywordLocation

Item(e) ==
    [InstancePath |-> normalizePath(e.InstanceLocation),
     SchemaPath |-> schemaPath(e),
     Keyword |-> keywordFromLocation(e.KeywordLocation),
     Message |-> e.Message]

\* flattenErrors' walk taking only the leaves right below each error.
walkCausesShallow(es) ==
    LET direct(e) == {i \in DOMAIN e.Causes : e.Causes[i].Causes = <<>>}
        first(e)  == CHOOSE i \in direct(e) : \A j \in direct(e) : i <= j
    IN  IF es = <<>> THEN <<>>
        ELSE IF es[1].Causes = <<>> THEN <<Item(es[1])>>
        ELSE IF direct(es[1]) = {} THEN <<>>
        ELSE <<Item(es[1].Causes[first(es[1])])>>

\* flattenErrors' walk: the leaves of the cause tree, left to right.
RECURSIVE walkCauses(_)
walkCauses(es) ==
    IF es = <<>> THEN <<>>
    ELSE (IF es[1].Causes = <<>> THEN <<Item(es[1])>>
          ELSE walkCauses(es[1].Causes))
             \o walkCauses(Tail(es))

itemLess(a, b) ==
    IF a.InstancePath = b.InstancePath THEN StrLess(a.SchemaPath, b.SchemaPath)
    ELSE StrLess(a.InstancePath, b.InstancePath)

\* flattenErrors without its sort.Slice: the items in the walk's order.
sortItemsSkipped(items) == items

\* sort.Slice by (InstancePath, SchemaPath), as an insertion sort.
RECURSIVE sortItems(_)
sortItems(items) ==
    IF items = <<>> THEN <<>>
    ELSE LET Insert(rest, n) ==
                 SubSeq(rest, 1, n) \o <<items[1]>>
                     \o SubSeq(rest, n + 1, Len(rest))
             Into(rest) ==
                 Insert(rest, Cardinality({i \in DOMAIN rest :
                                              ~itemLess(items[1], rest[i])}))
         IN  Into(sortItems(Tail(items)))

\* flattenErrors keeping every node of the cause tree, aggregates too.
RECURSIVE allNodes(_)
allNodes(es) ==
    IF es = <<>> THEN <<>>
    ELSE <<Item(es[1])>> \o allNodes(es[1].Causes) \o allNodes(Tail(es))

flattenErrorsAllNodes(err) == sortItems(allNodes(<<err>>))

flattenErrors(err) == sortItems(walkCauses(<<err>>))

\* extractFragment: what follows the first # of a URI, or all of it.
extractFragment(uri) ==
    IF \E i \in DOMAIN uri : uri[i] = "#"
    THEN SubSeq(uri,
                (CHOOSE i \in DOMAIN uri :
                     uri[i] = "#" /\ \A j \in 1..(i - 1) : uri[j] # "#") + 1,
                Len(uri))
    ELSE uri

\* strings.Split(s, "/"): empty elements are kept.
RECURSIVE Split(_)
Split(s) ==
    IF \A i \in DOMAIN s : s[i] # "/" THEN <<s>>
    ELSE LET Cut(i) == <<SubSeq(s, 1, i - 1)>> \o Split(SubSeq(s, i + 1, Len(s)))
         IN  Cut(CHOOSE i \in DOMAIN s :
                     s[i] = "/" /\ \A j \in 1..(i - 1) : s[j] # "/")

\* strings.ReplaceAll(s, "~" + c, r) for one character c.
RECURSIVE ReplaceTilde(_, _, _)
ReplaceTilde(s, c, r) ==
    IF Len(s) < 2 THEN s
    ELSE IF s[1] = "~" /\ s[2] = c
    THEN <<r>> \o ReplaceTilde(SubSeq(s, 3, Len(s)), c, r)
    ELSE <<s[1]>> \o ReplaceTilde(Tail(s), c, r)

\* The decoding resolveJSONPointer applies to one pointer element:
\* ~1 to /, then ~0 to ~ (percent-escapes stay as they are).
DecodePart(part) == ReplaceTilde(ReplaceTilde(part, "1", "/"), "0", "~")

\* The keywords a schema may hold, by the name a pointer element spells,
\* and the JSON type of the value each holds.
Keywords ==
    (tType :> "type") @@ (tConst :> "const") @@ (tRequired :> "required")
        @@ (tProperties :> "properties")
        @@ (tPatternProperties :> "patternProperties")
        @@ (tPropertyNames :> "propertyNames") @@ (tPattern :> "pattern")
        @@ (tNot :> "not") @@ (tAllOf :> "allOf") @@ (tOneOf :> "oneOf")
        @@ (kDefaultContent :> "defaultContent")
        @@ (kOverwritable :> "overwritable")

KeywordSort(kw) ==
    CASE kw \in {"properties", "patternProperties"} -> "map"
      [] kw \in {"allOf", "oneOf"} -> "array"
      [] kw = "required" -> "strings"
      [] kw \in {"not", "propertyNames"} -> "schema"
      [] OTHER -> "scalar"

NilNode == [sort |-> "nil", val |-> <<>>]

\* The array index a pointer element spells (-1: not all digits).
RECURSIVE ArrayIndex(_, _)
ArrayIndex(part, idx) ==
    IF part = <<>> THEN idx
    ELSE IF \A d \in DOMAIN Digits : Digits[d] # part[1] THEN -1
    ELSE ArrayIndex(Tail(part),
                    idx * 10 + (CHOOSE d \in DOMAIN Digits :
                                    Digits[d] = part[1]) - 1)

\* resolveJSONPointer: follow the elements of a pointer from a node of the
\* schema; a node is a schema, a map of schemas, an array of schemas or of
\* strings, or a scalar.
RECURSIVE resolveParts(_, _)
resolveParts(node, parts) ==
    IF parts = <<>> THEN node
    ELSE LET part == DecodePart(parts[1])
             Index(idx) ==
                 IF idx < 0 \/ idx >= Len(node.val) THEN NilNode
                 ELSE resolveParts(
                          [sort |-> IF node.sort = "strings"
                                    THEN "scalar" ELSE "schema",
                           val |-> node.val[idx + 1]],
                          Tail(parts))
         IN  CASE node.sort = "schema" ->
                      IF part \in DOMAIN Keywords
                         /\ Has(node.val, Keywords[part])
                      THEN resolveParts(
                               [sort |-> KeywordSort(Keywords[part]),
                                val |-> node.val[Keywords[part]]],
                               Tail(parts))
                      ELSE NilNode
               [] node.sort = "map" ->
                      IF part \in DOMAIN node.val
                      THEN resolveParts([sort |-> "schema",
                                         val |-> node.val[part]], Tail(parts))
                      ELSE NilNode
               [] node.sort \in {"array", "strings"} ->
                      Index(ArrayIndex(part, 0))
               [] OTHER -> NilNode

resolveJSONPointer(s, pointer) ==
    IF pointer = <<>> \/ pointer = <<"/">> THEN [sort |-> "schema", val |-> s]
    ELSE resolveParts([sort |-> "schema", val |-> s],
                      Split(IF pointer[1] = "/" THEN Tail(pointer)
                            ELSE pointer))

\* extractGlobPresencePattern: R when the node is
\* {"propertyNames": {"not": {"pattern": R}}}, else "".
extractGlobPresencePattern(node) ==
    IF /\ node.sort = "schema"
       /\ Has(node.val, "propertyNames")
       /\ Has(node.val.propertyNames, "not")
       /\ Has(node.val.propertyNames["not"], "pattern")
    THEN node.val.propertyNames["not"].pattern
    ELSE <<>>

kGlobPresence ==
    <<"g", "l", "o", "b", "-", "p", "r", "e", "s", "e", "n", "c", "e">>

\* The loop body of rewriteGlobPresenceErrors for one item.
rewriteItem(item, s) ==
    LET Rewritten(pattern) ==
            IF pattern = <<>> THEN item
            ELSE [item EXCEPT
                     !.Message = [fmt |-> "no entries matching pattern %s",
                                  args |-> <<pattern>>],
                     !.Keyword = kGlobPresence]
        Found(node) ==
            IF node.sort = "nil" THEN item
            ELSE Rewritten(extractGlobPresencePattern(node))
        Fragment(fragment) ==
            IF fragment = <<>> THEN item
            ELSE Found(resolveJSONPointer(s, fragment))
    IN  IF item.Keyword # tNot THEN item
        ELSE Fragment(extractFragment(item.SchemaPath))

rewriteGlobPresenceErrors(items, s) ==
    [i \in DOMAIN items |-> rewriteItem(items[i], s)]

\* validate.Validate for a schema that compiles.
Validate(s, instance) ==
    LET Result(r) ==
            IF r.ok THEN [Valid |-> TRUE, Errors |-> <<>>]
            ELSE [Valid |-> FALSE,
                  Errors |-> rewriteGlobPresenceErrors(flattenErrors(r.err),
                                                       s)]
    IN  Result(SchemaValidate(s, instance))

-----------------------------------------------------------------------------
(* Inputs of the hydration runs                                            *)

nD == <<"d">>
nDs == <<"d", "/">>
nF == <<"f">>
nG == <<"g">>
nL == <<"l">>
nT == <<"t">>
sOld == <<"o", "l", "d">>
sNew == <<"n", "e", "w">>
sDG == <<"d", "/", "g">>
nGs == <<"g", "/">>

\* The byte 0xFF, which no UTF-8 text holds, and a file content with it.
InvalidByte == "xFF"
sBinary == <<"n", InvalidByte>>

EmptyRoot == (<<>> :> DirNode)

\* A root made of three independent choices: what sits at f, at l and at d.
RootWith(atF, atL, atD) == EmptyRoot @@ atF @@ atL @@ atD

HydrateRoots ==
    { RootWith(atF, atL, atD) :
        atF \in { EmptyMap,
                  <<nF>> :> FileNode(sOld),
                  <<nF>> :> DirNode,
                  <<nF>> :> LinkNode(nT),
                  <<nF>> :> LinkNode(nD) },
        atL \in { EmptyMap,
                  <<nL>> :> LinkNode(nT),
                  <<nL>> :> FileNode(sOld) },
        atD \in { EmptyMap,
                  <<nD>> :> DirNode,
                  (<<nD>> :> DirNode) @@ (<<nD, nG>> :> FileNode(sOld)),
                  <<nD>> :> FileNode(sOld) } }

\* File leaves as hand-written schemas state them (hydrate_test.go,
\* TestHydrateReportsInvalid) and as the DSL compiler emits them.
LeafTrue == [const |-> JTrue]
LeafExists == [oneOf |-> <<[const |-> JTrue], [type |-> "object"]>>]
LeafDefault(c, ow) ==
    [oneOf |-> <<[const |-> JTrue], [type |-> "object"]>>,
     defaultContent |-> c, overwritable |-> ow]
LeafContent(c) ==
    [type |-> "object", properties |-> (kContent :> [const |-> JStr(c)]),
     required |-> <<kContent>>, defaultContent |-> c]
\* A content constraint alone, as TestApplyCreatesFiles states it and as
\* the DSL compiler emits it (no defaultContent).
LeafContentOnly(c) ==
    [type |-> "object", properties |-> (kContent :> [const |-> JStr(c)])]
LeafSymlink(t) ==
    [type |-> "object", properties |-> (kSymlink :> [const |-> JStr(t)]),
     required |-> <<kSymlink>>]
DirSchema(props, req) ==
    [type |-> "object", properties |-> props, required |-> req]

pDirD == <<"^", "d", "/", "$">>
pDirAny == <<"^", ".", "*", "/", "$">>
pFileA == <<"^", "a", "$">>
pFileAny == <<"^", ".", "$">>

EmptyDir == DirSchema(EmptyMap, <<>>)
PatternSchema(pats) == [type |-> "object", patternProperties |-> pats]

\* A directory schema with literal entries and pattern entries.
MixedSchema(props, pats, req) ==
    [type |-> "object", properties |-> props, patternProperties |-> pats,
     required |-> req]

HydrateSchemas ==
    { DirSchema((nF :> LeafDefault(sNew, TRUE)), <<nF>>),
      DirSchema((nF :> LeafTrue) @@ (nL :> LeafSymlink(nT)), <<nL, nF>>),
      DirSchema((nDs :> DirSchema((nG :> LeafExists), <<nG>>))
                    @@ (nF :> LeafContent(sNew)), <<nF, nDs>>),
      DirSchema((nDs :> DirSchema((nG :> LeafDefault(sNew, FALSE))
                                      @@ (nL :> LeafSymlink(nF)),
                                  <<nG, nL>>))
                    @@ (nL :> LeafSymlink(nD)), <<nDs, nL>>),
      DirSchema((nDs :> DirSchema(EmptyMap, <<>>)), <<nDs>>),
      DirSchema((nF :> LeafContentOnly(sNew)), <<nF>>),
      DirSchema((nDs :> DirSchema(EmptyMap, <<>>)) @@ (nD :> LeafTrue),
                <<nD, nDs>>),
      DirSchema((nF :> LeafTrue), <<nF, nL>>),
      MixedSchema((nDs :> MixedSchema((nG :> LeafExists),
                                      (pFileAny :> LeafDefault(sNew, FALSE)),
                                      <<nG>>))
                      @@ (nF :> LeafTrue),
                  (pDirAny :> DirSchema((nG :> LeafExists), <<nG>>))
                      @@ (pFileA :> LeafSymlink(nT)),
                  <<nDs, nF>>),
      MixedSchema(EmptyMap, (pFileAny :> LeafDefault(sNew, TRUE)), <<>>),
      DirSchema((nF :> [type |-> "object", properties |-> EmptyMap])
                    @@ (nL :> [type |-> "object"]), <<nF, nL>>),
      DirSchema((nD :> DirSchema((nG :> LeafExists), <<nG>>)), <<nD>>),
      DirSchema((nD :> DirSchema((kContent :> [const |-> JStr(sNew)])
                                     @@ (nGs :> EmptyDir), <<nGs>>)),
                <<nD>>) }

\* Plans a caller builds by hand (hydrate_test.go, TestApplyDryRun), so
\* that Apply also meets operations whose target exists.
CallerOps ==
    { Op("writefile", nF, SomeContent(sNew), <<>>, TRUE),
      Op("writefile", nF, SomeContent(sNew), <<>>, FALSE),
      Op("writefile", nF, NoContent, <<>>, TRUE),
      Op("symlink", nF, NoContent, nT, TRUE),
      Op("symlink", nL, NoContent, nF, TRUE),
      Op("symlink", nL, NoContent, nF, FALSE),
      Op("symlink", nD, NoContent, nT, TRUE),
      Op("writefile", sDG, SomeContent(sNew), <<>>, TRUE),
      Op("mkdir", nD, NoContent, <<>>, FALSE) }

CallerPlans ==
    { <<o>> : o \in CallerOps }
        \cup { << Op("mkdir", nD, NoContent, <<>>, FALSE),
                  Op("writefile", sDG, SomeContent(sNew), <<>>, FALSE),
                  Op("symlink", nL, NoContent, nT, FALSE) >> }

ApplyOptions == [Force : BOOLEAN, DryRun : BOOLEAN]

NoWalkOpts ==
    [IncludeSize |-> FALSE, IncludeSHA256 |-> FALSE, IncludeContent |-> FALSE,
     MaxContentBytes |-> 0, SymlinkPolicy |-> "error"]
NoWalk == [ok |-> FALSE, err |-> "none", val |-> JTrue]
NoResult == [Valid |-> TRUE, Errors |-> <<>>]

-----------------------------------------------------------------------------
(* The hydration runs: BuildPlan or a caller-made plan, then Apply         *)

InitHydrate ==
    /\ fs \in HydrateRoots
    /\ schema \in HydrateSchemas
    /\ plan = <<>>
    /\ planErr = FALSE
    /\ planFs = fs
    /\ applyOpts = [Force |-> FALSE, DryRun |-> FALSE]
    /\ applyErr = FALSE
    /\ applyFs = fs
    /\ walkOpts = NoWalkOpts
    /\ walkOrc = NoOrc
    /\ walkOut = NoWalk
    /\ prevWalk = NoWalk
    /\ result = NoResult
    /\ exitCode = 0
    /\ dsl = JNull
    /\ pc = "start"

\* hydrate.BuildPlan(schema, root)
DoBuildPlan ==
    /\ pc = "start"
    /\ LET r == BuildPlan(fs, schema)
       IN  /\ plan' = r.ops
           /\ planErr' = ~r.ok
    /\ planFs' = fs
    /\ pc' = "planned"
    /\ UNCHANGED <<dsl, fs, schema, applyOpts, applyErr, applyFs, walkOpts, walkOrc,
                   walkOut, prevWalk, result, exitCode>>

\* A caller hands Apply a plan of its own.
DoCallerPlan ==
    /\ pc = "start"
    /\ plan' \in CallerPlans
    /\ planErr' = FALSE
    /\ planFs' = fs
    /\ pc' = "handmade"
    /\ UNCHANGED <<dsl, fs, schema, applyOpts, applyErr, applyFs, walkOpts, walkOrc,
                   walkOut, prevWalk, result, exitCode>>

\* hydrate.Apply(plan, opts)
DoApply ==
    /\ pc \in {"planned", "handmade"}
    /\ ~planErr
    /\ \E opts \in ApplyOptions :
          LET r == Apply(fs, plan, opts)
          IN  /\ applyOpts' = opts
              /\ applyErr' = ~r.ok
              /\ fs' = r.fs
    /\ applyFs' = fs
    /\ pc' = "applied"
    /\ UNCHANGED <<dsl, schema, plan, planErr, planFs, walkOpts, walkOrc, walkOut,
                   prevWalk, result, exitCode>>

\* A second hydrate run: BuildPlan(schema, root) on what Apply left.
DoBuildPlanAgain ==
    /\ pc = "applied"
    /\ LET r == BuildPlan(fs, schema)
       IN  /\ plan' = r.ops
           /\ planErr' = ~r.ok
    /\ planFs' = fs
    /\ pc' = "replanned"
    /\ UNCHANGED <<dsl, fs, schema, applyOpts, applyErr, applyFs, walkOpts, walkOrc,
                   walkOut, prevWalk, result, exitCode>>

NextHydrate == DoBuildPlan \/ DoCallerPlan \/ DoApply \/ DoBuildPlanAgain

SpecHydrate == InitHydrate /\ [][NextHydrate]_vars

-----------------------------------------------------------------------------
(* Claims about the hydration runs                                         *)

\* The last Apply was a real (non-dry-run) Apply of one WriteFile or
\* MakeSymlink operation whose target path held a file or a link.
OneOpOverExisting ==
    /\ pc = "applied"
    /\ ~applyOpts.DryRun
    /\ Len(plan) = 1
    /\ plan[1].Kind \in {"writefile", "symlink"}
    /\ Lstat(applyFs, plan[1].Path) \in {"file", "link"}

\* What the path of the operation holds after a replacing Apply.
Replaced(f, op) ==
    IF op.Kind = "symlink"
    THEN Lstat(f, op.Path) = "link" /\ Readlink(f, op.Path) = op.Target
    ELSE ReadFile(f, op.Path)
             = [ok |-> TRUE,
                data |-> IF op.Content.set THEN op.Content.val ELSE <<>>]

\* C1 (as claimed): a real Apply of a WriteFile or MakeSymlink operation
\* over an existing file or link succeeds and replaces the target exactly
\* when Force and the operation's Overwrite flag are both set; in every
\* other case it returns an error and leaves the filesystem as it was.
C1_OverwriteGuard ==
    OneOpOverExisting =>
        IF applyOpts.Force /\ plan[1].Overwrite
        THEN ~applyErr /\ Replaced(fs, plan[1])
        ELSE applyErr /\ fs = applyFs

\* C2 (as claimed): no operation of a plan BuildPlan returns targets a path
\* at which something exists at planning time, be it a directory, a file
\* or a link (also a link whose own target is missing).
C2_PlanOnlyMissing ==
    (pc = "planned" /\ ~planErr) =>
        \A i \in DOMAIN plan : Lstat(planFs, plan[i].Path) = "none"

\* C3: with DryRun set, Apply of any plan leaves the filesystem exactly as
\* it was, whatever Force is.
C3_DryRunFrame ==
    (pc = "applied" /\ applyOpts.DryRun) => fs = applyFs

\* C3's case: a dry run of a plan that mixes the three kinds and that a
\* real run would have changed the filesystem with.
C3_Witness ==
    /\ pc = "applied"
    /\ applyOpts.DryRun
    /\ {plan[i].Kind : i \in DOMAIN plan} = {"mkdir", "writefile", "symlink"}
    /\ Apply(applyFs, plan, [Force |-> applyOpts.Force, DryRun |-> FALSE]).fs
           # applyFs

\* The required file leaves at the root of the schema whose content the
\* schema fixes to a literal and at whose path nothing was on disk when
\* the plan was built.
MissingContentLeaves ==
    {n \in Range(schema.required) :
        /\ n \in DOMAIN schema.properties
        /\ ~isDirectorySchema(schema.properties[n], n)
        /\ Has(schema.properties[n], "properties")
        /\ kContent \in DOMAIN schema.properties[n].properties
        /\ Has(schema.properties[n].properties[kContent], "const")
        /\ Lstat(applyFs, SplitPath(n)) = "none"}

\* BuildPlan's plan was applied for real and without error.
BuiltAndApplied ==
    /\ pc = "applied"
    /\ plan = BuildPlan(applyFs, schema).ops
    /\ BuildPlan(applyFs, schema).ok
    /\ ~applyOpts.DryRun
    /\ ~applyErr

\* C12: after BuildPlan and Apply, every required file leaf that was
\* missing and whose schema states properties.content.const = S is a file
\* whose content is exactly S.
C12_ContentLiteralWritten ==
    BuiltAndApplied =>
        \A n \in MissingContentLeaves :
            ReadFile(fs, SplitPath(n)) =
                [ok |-> TRUE,
                 data |-> schema.properties[n].properties[kContent].const.v]

-----------------------------------------------------------------------------
(* Inputs of the walks                                                     *)

nA == <<"a">>
nB == <<"b">>
nAs == <<"a", "/">>
nBs == <<"b", "/">>
nLs == <<"l", "/">>
sRoot == <<"/">>
sAbsD == <<"/", "d">>
sAbsF == <<"/", "f">>

\* Roots of four independent choices.  Links lead to a sibling link (a and
\* b may name each other), to themselves, to a directory, to a file, to
\* the root or another ancestor, or nowhere.
WalkRoots ==
    { EmptyRoot @@ atA @@ atB @@ atD @@ atF :
        atA \in { EmptyMap,
                  <<nA>> :> LinkNode(nB),
                  <<nA>> :> LinkNode(nA),
                  <<nA>> :> LinkNode(nD),
                  <<nA>> :> LinkNode(nF),
                  <<nA>> :> LinkNode(sRoot),
                  <<nA>> :> LinkNode(nT),
                  <<nA>> :> DirNode },
        atB \in { EmptyMap,
                  <<nB>> :> LinkNode(nA),
                  <<nB>> :> FileNode(sOld) },
        atD \in { EmptyMap,
                  (<<nD>> :> DirNode) @@ (<<nD, nG>> :> FileNode(sOld)),
                  (<<nD>> :> DirNode) @@ (<<nD, nL>> :> LinkNode(sRoot)),
                  (<<nD>> :> DirNode) @@ (<<nD, nL>> :> LinkNode(sAbsD)),
                  (<<nD>> :> DirNode) @@ (<<nD, nL>> :> LinkNode(sAbsF)) },
        atF \in { EmptyMap, <<nF>> :> FileNode(sNew),
                  <<nF>> :> FileNode(sBinary) } }

\* Schemas that expect a link's name as a directory, as a file, as a link,
\* as several of these, and by overlapping patterns.
WalkSchemas ==
    { NilSchema,
      DirSchema((nAs :> EmptyDir) @@ (nBs :> EmptyDir), <<nAs, nBs>>),
      DirSchema((nDs :> DirSchema((nLs :> EmptyDir), <<nLs>>)), <<nDs>>),
      DirSchema((nA :> LeafExists) @@ (nB :> LeafSymlink(nA)), <<nA, nB>>),
      DirSchema((nAs :> EmptyDir) @@ (nA :> LeafExists), <<>>),
      DirSchema((nAs :> EmptyDir) @@ (nA :> LeafSymlink(nD)), <<>>),
      PatternSchema((pDirD :> DirSchema((nLs :> EmptyDir), <<>>))
                        @@ (pDirAny :> DirSchema((nL :> LeafExists), <<>>))),
      PatternSchema((pFileA :> LeafSymlink(nD)) @@ (pFileAny :> LeafExists)) }

\* Every pattern a schema holds, at any depth.
RECURSIVE PatternKeys(_)
PatternKeys(s) ==
    DOMAIN schemaPatterns(s)
        \cup UNION {PatternKeys(schemaProps(s)[k]) : k \in DOMAIN schemaProps(s)}
        \cup UNION {PatternKeys(schemaPatterns(s)[k]) :
                        k \in DOMAIN schemaPatterns(s)}

Orders(s) ==
    LET keys == PatternKeys(s)
    IN  {o \in [1..Cardinality(keys) -> keys] : Range(o) = keys}

\* The iteration orders one walk may meet at the three pattern lookups.
Orcs(s) == [dir : Orders(s), sym : Orders(s), file : Orders(s)]

SymlinkPolicies == {"error", "ignore", "record", "follow"}

\* instance.DefaultMaxContentBytes (1 << 20)
DefaultMaxContentBytes == 1048576

\* A MaxContentBytes below the length of the files of the roots (the
\* tests walk with 16).
SmallMaxContentBytes == 2

\* The options of a plain walk under each policy, ScanAttributes, and each
\* attribute alone under a small MaxContentBytes.
WalkOptions ==
    { [NoWalkOpts EXCEPT !.SymlinkPolicy = pol] : pol \in SymlinkPolicies }
        \cup { [IncludeSize |-> a = "size", IncludeSHA256 |-> a = "sha256",
                IncludeContent |-> a = "content",
                MaxContentBytes |-> SmallMaxContentBytes,
                SymlinkPolicy |-> "record"] :
                    a \in {"size", "sha256", "content"} }
        \cup { [IncludeSize |-> TRUE, IncludeSHA256 |-> TRUE,
                IncludeContent |-> TRUE,
                MaxContentBytes |-> DefaultMaxContentBytes,
                SymlinkPolicy |-> "record"] }

-----------------------------------------------------------------------------
(* The walks: one walk of a snapshot, then a second walk of the same       *)

InitWalk ==
    /\ fs \in WalkRoots
    /\ schema \in WalkSchemas
    /\ plan = <<>>
    /\ planErr = FALSE
    /\ planFs = fs
    /\ applyOpts = [Force |-> FALSE, DryRun |-> FALSE]
    /\ applyErr = FALSE
    /\ applyFs = fs
    /\ walkOpts = NoWalkOpts
    /\ walkOrc = NoOrc
    /\ walkOut = NoWalk
    /\ prevWalk = NoWalk
    /\ result = NoResult
    /\ exitCode = 0
    /\ dsl = JNull
    /\ pc = "start"

\* fswalk.WalkWithSchema(root, opts, schema), or fswalk.Walk(root, opts)
\* when there is no schema
DoWalk ==
    /\ pc = "start"
    /\ \E opts \in WalkOptions, orc \in Orcs(schema) :
          /\ walkOpts' = opts
          /\ walkOrc' = orc
          /\ walkOut' = WalkWithSchema(fs, opts, schema, orc)
    /\ pc' = "walked"
    /\ UNCHANGED <<dsl, fs, schema, plan, planErr, planFs, applyOpts, applyErr,
                   applyFs, prevWalk, result, exitCode>>

\* The same call again: same root, options and schema, nothing changed
DoWalkAgain ==
    /\ pc = "walked"
    /\ \E orc \in Orcs(schema) :
          /\ walkOrc' = orc
          /\ walkOut' = WalkWithSchema(fs, walkOpts, schema, orc)
    /\ prevWalk' = walkOut
    /\ pc' = "rewalked"
    /\ UNCHANGED <<dsl, fs, schema, plan, planErr, planFs, applyOpts, applyErr,
                   applyFs, walkOpts, result, exitCode>>

NextWalk == DoWalk \/ DoWalkAgain

SpecWalk == InitWalk /\ [][NextWalk]_vars

-----------------------------------------------------------------------------
(* Claims about the walks                                                  *)

\* C9 (as claimed): two walks of one unchanged snapshot with the same
\* options and schema end alike: the same instance, or an error both times.
C9_WalkDeterministic ==
    pc = "rewalked" =>
        /\ walkOut.ok = prevWalk.ok
        /\ walkOut.ok => walkOut.val = prevWalk.val

IsPrefix(p, q) == Len(p) <= Len(q) /\ SubSeq(q, 1, Len(p)) = p

\* The links of f that lead to a directory they themselves lie in.
LinksToAncestor(f) ==
    {p \in DOMAIN f :
        /\ f[p].kind = "link"
        /\ EvalSymlinks(f, p).ok
        /\ IsPrefix(EvalSymlinks(f, p).path, ParentOf(p))}

\* Schema s expects, by exact name, a directory at every element of p.
RECURSIVE ExpectedDirPath(_, _)
ExpectedDirPath(s, p) ==
    p = <<>> \/ /\ (p[1] \o <<"/">>) \in DOMAIN schemaProps(s)
                /\ ExpectedDirPath(schemaProps(s)[p[1] \o <<"/">>], Tail(p))

FlatLinks(f) == \A p \in DOMAIN f : f[p].kind = "link" => Len(p) = 1

RootLinks(f) == {p[1] : p \in {q \in DOMAIN f : Len(q) = 1 /\ f[q].kind = "link"}}

\* What the last walk's schema says of the root entry name.
ExpectsDir(name) ==
    /\ ~IsNil(schema)
    /\ schemaExpectsDir(name, schemaProps(schema), schemaPatterns(schema),
                        walkOrc.dir).ok
ExpectsSymlink(name) ==
    /\ ~IsNil(schema)
    /\ schemaExpectsSymlink(name, schemaProps(schema), schemaPatterns(schema),
                            walkOrc.sym)
ExpectsFile(name) ==
    /\ ~IsNil(schema)
    /\ schemaExpectsFile(name, schemaProps(schema), schemaPatterns(schema),
                         walkOrc.file)

\* What the root link name leads to: "dir", "file", or "none" when it does
\* not resolve.
TargetKind(name) == Stat(fs, <<name>>)

\* What an entry is to come to: the walk fails, the entry is left out, it
\* is walked as the directory name/, or it is recorded under name.
Fails == [how |-> "fail", val |-> JTrue]
Absent == [how |-> "absent", val |-> JTrue]
AsDir == [how |-> "dir", val |-> JTrue]
AsValue(v) == [how |-> "val", val |-> v]

\* Walking the root link name as a directory: a link back to the root is
\* a cycle.
WalkedAsDir(name) ==
    IF EvalSymlinks(fs, <<name>>).path = <<>> THEN Fails ELSE AsDir

ReadAsFile(name) ==
    AsValue(fileValue(fs, EvalSymlinks(fs, <<name>>).path, walkOpts).val)

Recorded(name) == AsValue(SymlinkValue(fs, <<name>>))

\* Rule 4, the global policy.
ByPolicy(name) ==
    CASE walkOpts.SymlinkPolicy = "error" -> Fails
      [] walkOpts.SymlinkPolicy = "ignore" -> Absent
      [] walkOpts.SymlinkPolicy = "record" -> Recorded(name)
      [] walkOpts.SymlinkPolicy = "follow" ->
            IF TargetKind(name) = "none" THEN Fails
            ELSE IF TargetKind(name) = "dir" THEN WalkedAsDir(name)
            ELSE ReadAsFile(name)

\* The rules as the claim orders them: a rule whose target kind does not
\* fit, or whose link does not resolve, falls through to the next rule.
RuleClaimed(name) ==
    IF ExpectsDir(name) /\ TargetKind(name) = "dir" THEN WalkedAsDir(name)
    ELSE IF ExpectsSymlink(name) THEN Recorded(name)
    ELSE IF ExpectsFile(name) /\ TargetKind(name) = "file"
    THEN ReadAsFile(name)
    ELSE ByPolicy(name)

\* The rules with what happens when the target does not fit: under a
\* directory expectation the link must resolve, and a non-directory target
\* goes straight to the policy; under a file expectation the link must
\* resolve, and a directory target goes to the policy.
RuleAmended(name) ==
    IF ExpectsDir(name)
    THEN IF TargetKind(name) = "none" THEN Fails
         ELSE IF TargetKind(name) = "dir" THEN WalkedAsDir(name)
         ELSE ByPolicy(name)
    ELSE IF ExpectsSymlink(name) THEN Recorded(name)
    ELSE IF ExpectsFile(name)
    THEN IF TargetKind(name) = "none" THEN Fails
         ELSE IF TargetKind(name) = "file" THEN ReadAsFile(name)
         ELSE ByPolicy(name)
    ELSE ByPolicy(name)

\* The last walk treated the root link name as exp says.
Treated(name, exp) ==
    LET out  == walkOut.val.v
        nm   == name \in DOMAIN out
        nmSl == (name \o <<"/">>) \in DOMAIN out
    IN  CASE exp.how = "fail" -> FALSE
          [] exp.how = "absent" -> ~nm /\ ~nmSl
          [] exp.how = "dir" -> ~nm /\ nmSl /\ out[name \o <<"/">>].k = "obj"
          [] exp.how = "val" -> nm /\ ~nmSl /\ out[name] = exp.val

\* A walk of a root with links at its top only that did not end at a file
\* too large to read.
WalkedFlat == pc = "walked" /\ FlatLinks(fs) /\ walkOut.err # "too-big"

\* C10 (as claimed): every link among the root's entries is treated by
\* the first of the four rules that applies, a rule whose target kind does
\* not fit falling through to the next; the walk fails exactly when the
\* rule of some link says so.
C10_RulesAsClaimed ==
    WalkedFlat =>
        /\ walkOut.ok <=> \A n \in RootLinks(fs) : RuleClaimed(n).how # "fail"
        /\ walkOut.ok => \A n \in RootLinks(fs) : Treated(n, RuleClaimed(n))

\* C10 (amended): the same with the rules as RuleAmended states them.
C10_RulesAmended ==
    WalkedFlat =>
        /\ walkOut.ok <=> \A n \in RootLinks(fs) : RuleAmended(n).how # "fail"
        /\ walkOut.ok => \A n \in RootLinks(fs) : Treated(n, RuleAmended(n))

\* C10's case: a walk succeeded on a link that the schema expects both as
\* a directory and as a link object while it leads to a file, and the
\* policy, not the link rule, decided (the link is left out).
C10_Witness ==
    /\ WalkedFlat
    /\ walkOut.ok
    /\ walkOpts.SymlinkPolicy = "ignore"
    /\ \E n \in RootLinks(fs) :
          /\ ExpectsDir(n)
          /\ ExpectsSymlink(n)
          /\ TargetKind(n) = "file"
          /\ n \notin DOMAIN walkOut.val.v

-----------------------------------------------------------------------------
(* Inputs of the validations                                               *)

nC == <<"c">>
sX == <<"x">>

\* What an instance holds under a name: the existence mark, a wrong
\* scalar, attribute objects, a nested directory.
LeafValues ==
    { JTrue, JStr(sX), JObj(EmptyMap), JObj(kSymlink :> JStr(nT)),
      JObj(kContent :> JStr(sNew)) }

FlatObjects(keys, vals) ==
    UNION { [dom -> vals] : dom \in SUBSET keys }

ValidateInstances ==
    { JObj(m) : m \in FlatObjects({nA, nB, nC}, LeafValues) }
        \cup { JObj((nDs :> JObj(m)) @@ (nA :> JTrue)) :
                   m \in FlatObjects({nG, nL}, {JTrue, JStr(sX)}) }

pFileG == <<"^", "g", "$">>

\* The glob-presence idiom: not every property name fails the pattern.
GlobPresence(p) ==
    [not |-> [propertyNames |-> [not |-> [pattern |-> p]]]]

\* Schemas holding the idiom: at the root, beside a literal name, under a
\* literal directory, under a directory pattern; and a `not` of another
\* shape.
GlobSchemas ==
    { [type |-> "object",
       patternProperties |-> (pFileA :> LeafExists),
       required |-> <<>>,
       allOf |-> <<GlobPresence(pFileA)>>],
      [type |-> "object",
       properties |-> (nC :> LeafExists),
       patternProperties |-> (pFileA :> LeafExists),
       required |-> <<nC>>,
       allOf |-> <<GlobPresence(pFileA)>>],
      DirSchema((nDs :> [type |-> "object",
                         patternProperties |-> (pFileG :> LeafExists),
                         required |-> <<>>,
                         allOf |-> <<GlobPresence(pFileG)>>])
                    @@ (nA :> LeafExists), <<nA, nDs>>),
      [type |-> "object",
       patternProperties |->
           (pDirAny :> [type |-> "object",
                        patternProperties |-> (pFileG :> LeafExists),
                        required |-> <<>>,
                        allOf |-> <<GlobPresence(pFileG)>>])],
      [type |-> "object",
       properties |-> (nA :> LeafExists),
       allOf |-> << [not |-> [type |-> "object", required |-> <<nB>>]] >>] }

ValidateSchemas ==
    GlobSchemas \cup
    { DirSchema((nA :> LeafExists) @@ (nB :> LeafExists) @@ (nC :> LeafExists),
                <<nA, nB, nC>>),
      DirSchema((nA :> LeafTrue) @@ (nB :> LeafSymlink(nT))
                    @@ (nC :> LeafContent(sNew)), <<nA, nB>>),
      DirSchema((nDs :> DirSchema((nG :> LeafExists) @@ (nL :> LeafTrue),
                                  <<nG, nL>>))
                    @@ (nA :> LeafExists), <<nA, nDs>>),
      [type |-> "object",
       patternProperties |-> (pFileA :> LeafSymlink(nT))
                                 @@ (pFileAny :> LeafExists),
       required |-> <<nC>>],
      [oneOf |-> << DirSchema((nA :> LeafTrue), <<nA>>),
                    DirSchema((nB :> LeafTrue), <<nB>>) >>] }

-----------------------------------------------------------------------------
(* The validations: one call of Validate on a schema and an instance       *)

InitValidate ==
    /\ fs = EmptyRoot
    /\ schema \in ValidateSchemas
    /\ plan = <<>>
    /\ planErr = FALSE
    /\ planFs = fs
    /\ applyOpts = [Force |-> FALSE, DryRun |-> FALSE]
    /\ applyErr = FALSE
    /\ applyFs = fs
    /\ walkOpts = NoWalkOpts
    /\ walkOrc = NoOrc
    /\ \E v \in ValidateInstances : walkOut = WalkOk(v)
    /\ prevWalk = NoWalk
    /\ result = NoResult
    /\ exitCode = 0
    /\ dsl = JNull
    /\ pc = "start"

\* validate.Validate(schema, instance)
DoValidate ==
    /\ pc = "start"
    /\ result' = Validate(schema, walkOut.val)
    /\ pc' = "validated"
    /\ UNCHANGED <<dsl, fs, schema, plan, planErr, planFs, applyOpts, applyErr,
                   applyFs, walkOpts, walkOrc, walkOut, prevWalk, exitCode>>

NextValidate == DoValidate

SpecValidate == InitValidate /\ [][NextValidate]_vars

-----------------------------------------------------------------------------
(* Claims about the validations                                            *)

\* The names the schema requires at the root that the instance lacks.
MissingAtRoot ==
    IF Has(schema, "required")
    THEN {n \in Range(schema.required) : n \notin DOMAIN walkOut.val.v}
    ELSE {}

\* The validation items that report a `required` violation at the root.
RequiredItemsAtRoot ==
    {i \in DOMAIN result.Errors :
        /\ result.Errors[i].Keyword = tRequired
        /\ result.Errors[i].InstancePath = <<>>}

\* C5 (as claimed): every required name the instance lacks is reported as
\* a Validation Item of its own: as many `required` items at the root as
\* there are missing names (three for three).
C5_OneItemPerMissingName ==
    (pc = "validated" /\ Has(schema, "type"))
        => Cardinality(RequiredItemsAtRoot) = Cardinality(MissingAtRoot)

\* C6: Validate returns Valid with no items, or not Valid with at least
\* one item.
C6_ValidIffNoErrors ==
    pc = "validated" => (result.Valid <=> result.Errors = <<>>)

\* C6's case: an invalid instance whose error tree is nested (the root
\* error wraps several keyword errors, one of them a failed oneOf whose
\* leaves lie deeper still).
C6_Witness ==
    /\ pc = "validated"
    /\ ~result.Valid
    /\ Len(result.Errors) >= 3
    /\ \E i \in DOMAIN result.Errors :
          /\ result.Errors[i].Keyword = tConst
          /\ result.Errors[i].InstancePath # <<>>

-----------------------------------------------------------------------------
(* internal/instance and internal/cli                                      *)

\* scanMap: the attribute names found as property names anywhere below s.
\* Map-valued keywords are descended into (properties and each of its
\* children, patternProperties and each of its children); arrays (oneOf)
\* are not.
RECURSIVE scanMap(_)
scanMap(s) ==
    (IF Has(s, "properties")
     THEN (DOMAIN s.properties \cap {kSize, kSha256, kContent})
              \cup UNION {scanMap(s.properties[k]) : k \in DOMAIN s.properties}
     ELSE {})
        \cup (IF Has(s, "patternProperties")
              THEN UNION {scanMap(s.patternProperties[k]) :
                              k \in DOMAIN s.patternProperties}
              ELSE {})

ScanAttributes(s) ==
    [IncludeSize |-> kSize \in scanMap(s),
     IncludeSHA256 |-> kSha256 \in scanMap(s),
     IncludeContent |-> kContent \in scanMap(s),
     MaxContentBytes |-> DefaultMaxContentBytes,
     SymlinkPolicy |-> "record"]

ExitSuccess == 0
ExitValidation == 1
ExitConfigError == 2

\* The sub-schemas of a schema, each with the JSON Pointer the validator
\* gives it (every token escaped as the validator escapes it).
RECURSIVE SubSchemas(_, _)
SubSchemas(s, ptr) ==
    LET Under(kw, tok) ==
            IF Has(s, kw) THEN SubSchemas(s[kw], joinPtr(ptr, tok)) ELSE {}
        Each(kw, tok) ==
            IF Has(s, kw)
            THEN UNION { SubSchemas(s[kw][i],
                                    joinPtr(joinPtr(ptr, tok), <<Digits[i]>>)) :
                             i \in DOMAIN s[kw] }
            ELSE {}
        Named(kw, tok) ==
            IF Has(s, kw)
            THEN UNION { SubSchemas(s[kw][n],
                                    joinPtr(joinPtr(ptr, tok), escape(n))) :
                             n \in DOMAIN s[kw] }
            ELSE {}
    IN  {[ptr |-> ptr, s |-> s]}
            \cup Under("not", tNot)
            \cup Under("propertyNames", tPropertyNames)
            \cup Each("allOf", tAllOf) \cup Each("oneOf", tOneOf)
            \cup Named("properties", tProperties)
            \cup Named("patternProperties", tPatternProperties)

\* The values the validator's meta-schema lets `type` hold.
JsonTypes ==
    {"array", "boolean", "integer", "null", "number", "object", "string"}

\* compiler.Compile succeeds: every `type` of the schema names a JSON type
\* (otherwise Validate returns `compile schema: ...` and no result).
Compiles(s) ==
    \A l \in SubSchemas(s, <<>>) : Has(l.s, "type") => l.s.type \in JsonTypes

\* WalkAndValidate reporting a failed walk as a validation failure.
WalkAndValidateWalkErrInvalid(f, s) ==
    LET Outcome(opts, inst, res) ==
            [opts |-> opts,
             walk |-> inst,
             result |-> IF inst.ok THEN res ELSE NoResult,
             exit |-> IF ~inst.ok THEN ExitValidation
                      ELSE IF ~Compiles(s) THEN ExitConfigError
                      ELSE IF res.Valid THEN ExitSuccess
                      ELSE ExitValidation]
        Walked(opts, inst) ==
            Outcome(opts, inst,
                    IF Compiles(s) THEN Validate(s, inst.val) ELSE NoResult)
        Scanned(opts) == Walked(opts, Walk(f, opts))
    IN  Scanned(ScanAttributes(s))

\* The part of runValidate and runHydrate after the filesystem is final:
\* walk with the scanned options, validate, turn the result into an exit
\* code.  A failed walk is a configuration error and leaves no result; so
\* is a schema that does not compile.
WalkAndValidate(f, s) ==
    LET Outcome(opts, inst, res) ==
            [opts |-> opts,
             walk |-> inst,
             result |-> IF inst.ok THEN res ELSE NoResult,
             exit |-> IF ~inst.ok \/ ~Compiles(s) THEN ExitConfigError
                      ELSE IF res.Valid THEN ExitSuccess
                      ELSE ExitValidation]
        Walked(opts, inst) ==
            Outcome(opts, inst,
                    IF Compiles(s) THEN Validate(s, inst.val) ELSE NoResult)
        Scanned(opts) == Walked(opts, Walk(f, opts))
    IN  Scanned(ScanAttributes(s))

-----------------------------------------------------------------------------
(* internal/expand: the DSL compiler (ParseDSL, expandDir)                 *)

\* DSL documents are JSON values: objects, lists, strings, numbers, true,
\* false and null.
kMin == <<"m", "i", "n">>
kMax == <<"m", "a", "x">>

\* strings.ToLower
ToLower(s) ==
    [i \in DOMAIN s |->
        CASE s[i] = "A" -> "a" [] s[i] = "C" -> "c" [] s[i] = "D" -> "d"
          [] s[i] = "E" -> "e" [] s[i] = "M" -> "m" [] s[i] = "O" -> "o"
          [] s[i] = "P" -> "p" [] s[i] = "R" -> "r" [] OTHER -> s[i]]

\* normalizeKey as with CaseSensitive set.
normalizeKeyCaseSensitive(key) == key

\* normalizeKey with the zero ParseOptions (CaseSensitive is false).
normalizeKey(key) == ToLower(key)

ParseErr == [ok |-> FALSE, val |-> JNull]
ParseOk(v) == [ok |-> TRUE, val |-> v]

\* parseNode, parseValue and parseList: the DSL value with its lists turned
\* into maps, or an error.
RECURSIVE parseNode(_), parseValue(_, _), parseList(_, _)
parseNode(node) ==
    IF \E k1, k2 \in DOMAIN node :
           k1 # k2 /\ normalizeKey(k1) = normalizeKey(k2)
    THEN ParseErr
    ELSE IF \E k \in DOMAIN node : ~parseValue(k, node[k]).ok THEN ParseErr
    ELSE ParseOk(JObj([k \in DOMAIN node |-> parseValue(k, node[k]).val]))

parseValue(key, value) ==
    IF key \in {kSymlink, kContent, kSha256}
    THEN (IF value.k = "str" THEN ParseOk(value) ELSE ParseErr)
    ELSE IF key = kSize
    THEN (CASE value.k = "num" -> ParseOk(value)
            [] value.k = "obj" ->
                   IF DOMAIN value.v \subseteq {kMin, kMax}
                   THEN ParseOk(value) ELSE ParseErr
            [] OTHER -> ParseErr)
    ELSE CASE value.k = "null" -> ParseOk(value)
           [] value.k = "bool" -> ParseOk(value)
           [] value.k = "obj" -> parseNode(value.v)
           [] value.k = "list" -> parseList(value.v, EmptyMap)
           [] OTHER -> ParseErr

\* parseList: out is the map built from the items before list[1].
parseList(list, out) ==
    IF list = <<>> THEN ParseOk(JObj(out))
    ELSE LET Add(key, parsed) ==
                 IF ~parsed.ok THEN ParseErr
                 ELSE IF \E k \in DOMAIN out :
                             normalizeKey(k) = normalizeKey(key)
                 THEN ParseErr
                 ELSE parseList(Tail(list), out @@ (key :> parsed.val))
             Single(m) ==
                 LET Only(k) == Add(k, parseValue(k, m[k]))
                 IN  Only(CHOOSE k \in DOMAIN m : TRUE)
         IN  CASE list[1].k = "str" -> Add(list[1].v, ParseOk(JTrue))
               [] list[1].k = "obj" ->
                      IF Cardinality(DOMAIN list[1].v) # 1 THEN ParseErr
                      ELSE Single(list[1].v)
               [] OTHER -> ParseErr

ParseDSL(root) ==
    CASE root.k = "obj" -> parseNode(root.v)
      [] root.k = "list" -> parseList(root.v, EmptyMap)
      [] OTHER -> ParseErr

\* isGlobPattern: strings.ContainsAny(key, "*?[")
isGlobPattern(key) == \E i \in DOMAIN key : key[i] \in {"*", "?", "["}

\* globToRegex: the anchored regular expression of a glob, or an error for
\* a character class that is not closed.
RECURSIVE globBody(_)
globBody(glob) ==
    IF glob = <<>> THEN [ok |-> TRUE, re |-> <<>>]
    ELSE LET Then(head, rest) ==
                 IF rest.ok THEN [ok |-> TRUE, re |-> head \o rest.re]
                 ELSE rest
             j0 == IF Len(glob) >= 2 /\ glob[2] = "!" THEN 3 ELSE 2
             j1 == IF j0 <= Len(glob) /\ glob[j0] = "]" THEN j0 + 1 ELSE j0
             Closers == {j \in j1..Len(glob) : glob[j] = "]"}
             Class(j) ==
                 Then(IF j > 2 /\ glob[2] = "!"
                      THEN <<"[", "^">> \o SubSeq(glob, 3, j)
                      ELSE SubSeq(glob, 1, j),
                      globBody(SubSeq(glob, j + 1, Len(glob))))
         IN  CASE glob[1] = "*" -> Then(<<".", "*">>, globBody(Tail(glob)))
               [] glob[1] = "?" -> Then(<<".">>, globBody(Tail(glob)))
               [] glob[1] = "[" ->
                      IF Closers = {} THEN [ok |-> FALSE, re |-> <<>>]
                      ELSE Class(CHOOSE j \in Closers :
                                     \A i \in Closers : j <= i)
               [] glob[1] \in {".", "+", "^", "$", "(", ")", "{", "}", "|",
                               "\\"} ->
                      Then(<<"\\", glob[1]>>, globBody(Tail(glob)))
               [] OTHER -> Then(<<glob[1]>>, globBody(Tail(glob)))

\* regexp.Compile on what the loop wrote: the text must parse.  A class
\* opens at [, may start with ^, takes its first character as it is (also
\* a ]), and must meet a ] after it; \x is one character.
RECURSIVE classCloses(_), regexCompiles(_)
classCloses(re) ==
    IF re = <<>> THEN FALSE
    ELSE IF re[1] = "]" THEN regexCompiles(Tail(re))
    ELSE IF re[1] = "\\"
    THEN Len(re) >= 2 /\ classCloses(SubSeq(re, 3, Len(re)))
    ELSE classCloses(Tail(re))

regexCompiles(re) ==
    IF re = <<>> THEN TRUE
    ELSE IF re[1] = "\\"
    THEN Len(re) >= 2 /\ regexCompiles(SubSeq(re, 3, Len(re)))
    ELSE IF re[1] = "["
    THEN LET Body(t) ==
                 IF t = <<>> THEN FALSE
                 ELSE IF t[1] = "\\"
                 THEN Len(t) >= 2 /\ classCloses(SubSeq(t, 3, Len(t)))
                 ELSE classCloses(Tail(t))
         IN  Body(IF Len(re) >= 2 /\ re[2] = "^"
                  THEN SubSeq(re, 3, Len(re)) ELSE Tail(re))
    ELSE regexCompiles(Tail(re))

\* globToRegex without the anchors.
globToRegexUnanchored(glob) ==
    LET Checked(b) ==
            IF b.ok /\ ~regexCompiles(b.re) THEN [ok |-> FALSE, re |-> <<>>]
            ELSE b
    IN  Checked(globBody(glob))

globToRegex(glob) ==
    LET Anchored(b) ==
            IF ~b.ok THEN b
            ELSE IF ~regexCompiles(<<"^">> \o b.re \o <<"$">>)
            THEN [ok |-> FALSE, re |-> <<>>]
            ELSE [ok |-> TRUE, re |-> <<"^">> \o b.re \o <<"$">>]
    IN  Anchored(globBody(glob))

ExpandErr == [ok |-> FALSE, schema |-> NilSchema]
ExpandOk(s) == [ok |-> TRUE, schema |-> s]

\* existenceOnlyFileSchema accepting the boolean true alone.
existenceOnlyTrue == [const |-> JTrue]

\* existenceOnlyFileSchema
existenceOnlyFileSchema ==
    [oneOf |-> <<[const |-> JTrue], [type |-> "object"]>>]

\* expandSizeConstraint: a number, or {min, max}.
expandSizeConstraint(size) ==
    CASE size.k = "num" -> ExpandOk([const |-> size])
      [] size.k = "obj" ->
             IF \E k \in DOMAIN size.v : size.v[k].k # "num" THEN ExpandErr
             ELSE ExpandOk(
                      [type |-> "integer"]
                      @@ (IF kMin \in DOMAIN size.v
                          THEN [minimum |-> size.v[kMin]] ELSE EmptyMap)
                      @@ (IF kMax \in DOMAIN size.v
                          THEN [maximum |-> size.v[kMax]] ELSE EmptyMap))
      [] OTHER -> ExpandErr

\* expandFileDescriptor refusing symlink beside content only.
expandFileDescriptorContentOnly(obj) ==
    LET has(k) == k \in DOMAIN obj
    IN  IF has(kSymlink) /\ has(kContent) THEN ExpandErr
        ELSE IF has(kSymlink)
        THEN (IF obj[kSymlink].k # "str" THEN ExpandErr
              ELSE ExpandOk([type |-> "object",
                             properties |->
                                 (kSymlink :> [const |-> obj[kSymlink]]),
                             required |-> <<kSymlink>>]))
        ELSE IF has(kContent) \/ has(kSize) \/ has(kSha256)
        THEN ExpandOk([type |-> "object"])
        ELSE ExpandErr

\* expandFileDescriptor
expandFileDescriptor(obj) ==
    LET has(k) == k \in DOMAIN obj
        Attr(k) == IF has(k) THEN (k :> [const |-> obj[k]]) ELSE EmptyMap
        Size(sz) ==
            IF ~sz.ok THEN ExpandErr
            ELSE ExpandOk(
                     [type |-> "object",
                      properties |->
                          Attr(kContent) @@ Attr(kSha256)
                              @@ (IF has(kSize) THEN (kSize :> sz.schema)
                                  ELSE EmptyMap),
                      required |->
                          SortStrings({k \in {kContent, kSize, kSha256} :
                                           has(k)})])
    IN  IF has(kSymlink) /\ (has(kContent) \/ has(kSize) \/ has(kSha256))
        THEN ExpandErr
        ELSE IF has(kSymlink)
        THEN (IF obj[kSymlink].k # "str" THEN ExpandErr
              ELSE ExpandOk([type |-> "object",
                             properties |->
                                 (kSymlink :> [const |-> obj[kSymlink]]),
                             required |-> <<kSymlink>>]))
        ELSE IF has(kContent) \/ has(kSize) \/ has(kSha256)
        THEN (IF \/ has(kContent) /\ obj[kContent].k # "str"
                 \/ has(kSha256) /\ obj[kSha256].k # "str"
              THEN ExpandErr
              ELSE Size(IF has(kSize) THEN expandSizeConstraint(obj[kSize])
                        ELSE ExpandOk(NilSchema)))
        ELSE ExpandErr

\* expandFileValue
expandFileValue(value) ==
    CASE value.k = "null" -> ExpandOk(existenceOnlyFileSchema)
      [] value.k = "bool" ->
             IF value.v THEN ExpandOk(existenceOnlyFileSchema) ELSE ExpandErr
      [] value.k = "obj" -> expandFileDescriptor(value.v)
      [] OTHER -> ExpandErr

RECURSIVE expandDir(_)

\* expandDir appending every key, glob or not, to required.
expandDirGlobsRequired(node) ==
    LET Entry(key) ==
            IF isGlobPattern(key) /\ ~globToRegex(key).ok THEN ExpandErr
            ELSE IF HasSuffix(key, <<"/">>)
            THEN (CASE node[key].k = "null" -> expandDir(EmptyMap)
                    [] node[key].k = "obj" -> expandDir(node[key].v)
                    [] OTHER -> ExpandErr)
            ELSE expandFileValue(node[key])
        lits == {k \in DOMAIN node : ~isGlobPattern(k)}
        globs == DOMAIN node \ lits
        Last(re) ==
            CHOOSE k \in globs :
                /\ globToRegex(k).re = re
                /\ \A k2 \in globs :
                       globToRegex(k2).re = re => ~StrLess(k, k2)
    IN  IF \E k \in DOMAIN node : ~Entry(k).ok THEN ExpandErr
        ELSE ExpandOk(
                 [type |-> "object",
                  required |-> SortStrings(DOMAIN node)]
                 @@ (IF lits = {} THEN EmptyMap
                     ELSE [properties |-> [k \in lits |-> Entry(k).schema]])
                 @@ (IF globs = {} THEN EmptyMap
                     ELSE [patternProperties |->
                              [re \in {globToRegex(k).re : k \in globs} |->
                                  Entry(Last(re)).schema]]))

\* expandDir and expandDirectoryValue: literal keys go to properties and
\* required, glob keys to patternProperties under their regex (of two keys
\* with one regex the later in sorted order stays).
expandDir(node) ==
    LET Entry(key) ==
            IF isGlobPattern(key) /\ ~globToRegex(key).ok THEN ExpandErr
            ELSE IF HasSuffix(key, <<"/">>)
            THEN (CASE node[key].k = "null" -> expandDir(EmptyMap)
                    [] node[key].k = "obj" -> expandDir(node[key].v)
                    [] OTHER -> ExpandErr)
            ELSE expandFileValue(node[key])
        keys == SortStrings(DOMAIN node)
        Literal(key) == ~isGlobPattern(key)
        lits == {k \in DOMAIN node : Literal(k)}
        globs == DOMAIN node \ lits
        Last(re) ==
            CHOOSE k \in globs :
                /\ globToRegex(k).re = re
                /\ \A k2 \in globs :
                       globToRegex(k2).re = re => ~StrLess(k, k2)
    IN  IF \E k \in DOMAIN node : ~Entry(k).ok THEN ExpandErr
        ELSE ExpandOk(
                 [type |-> "object",
                  required |-> SelectSeq(keys, Literal)]
                 @@ (IF lits = {} THEN EmptyMap
                     ELSE [properties |-> [k \in lits |-> Entry(k).schema]])
                 @@ (IF globs = {} THEN EmptyMap
                     ELSE [patternProperties |->
                              [re \in {globToRegex(k).re : k \in globs} |->
                                  Entry(Last(re)).schema]]))

\* ExpandDSL
ExpandDSL(root) ==
    LET Parsed(parsed) ==
            IF ~parsed.ok THEN ExpandErr ELSE expandDir(parsed.val.v)
    IN  Parsed(ParseDSL(root))

-----------------------------------------------------------------------------
(* Inputs of the command runs                                              *)

nSrc == <<"s", "r", "c">>
nSrcDir == <<"s", "r", "c", "/">>
nMainGo == <<"m", "a", "i", "n", ".", "g", "o">>
nReadme == <<"R", "E", "A", "D", "M", "E", ".", "m", "d">>

\* A root that holds src/main.go and README.md.
ReadmeRoot ==
    EmptyRoot @@ (<<nSrc>> :> DirNode) @@ (<<nSrc, nMainGo>> :> FileNode(sNew))
        @@ (<<nReadme>> :> FileNode(sOld))

\* What the DSL {"src/": {"main.go": true}, "README.md": true} compiles to.
ReadmeSchema ==
    DirSchema((nReadme :> LeafExists)
                  @@ (nSrcDir :> DirSchema((nMainGo :> LeafExists), <<nMainGo>>)),
              <<nReadme, nSrcDir>>)

\* A root that holds src/main.go, real-lib/util.go and the link
\* lib -> /real-lib (TestValidateWithSymlinkedSubdir).
nLib == <<"l", "i", "b">>
nLibDir == <<"l", "i", "b", "/">>
nRealLib == <<"r", "e", "a", "l", "-", "l", "i", "b">>
nUtilGo == <<"u", "t", "i", "l", ".", "g", "o">>

LibRoot ==
    EmptyRoot @@ (<<nSrc>> :> DirNode) @@ (<<nSrc, nMainGo>> :> FileNode(sNew))
        @@ (<<nRealLib>> :> DirNode)
        @@ (<<nRealLib, nUtilGo>> :> FileNode(sOld))
        @@ (<<nLib>> :> LinkNode(<<"/">> \o nRealLib))

\* What the DSL {"src/": {"main.go": true}, "lib/": {"util.go": true}}
\* compiles to.
LibSchema ==
    DirSchema((nSrcDir :> DirSchema((nMainGo :> LeafExists), <<nMainGo>>))
                  @@ (nLibDir :> DirSchema((nUtilGo :> LeafExists),
                                           <<nUtilGo>>)),
              <<nLibDir, nSrcDir>>)

LeafTrueDefault(c) == [const |-> JTrue, defaultContent |-> c]

\* A schema the validator refuses to compile (TestValidateSchemaError has
\* {"type": 123}), and a root that is a regular file.
BadTypeSchema == [type |-> "123"]
FileRoot == (<<>> :> FileNode(sOld))

\* What loadSchema returns: the schema, or the error of spec.Load, of
\* decodeRoot, of spec.InferKind or of expand.ExpandDSL.
LoadOutcomes == {"ok", "load", "parse", "kind", "expand"}

\* Schemas whose required leaves all carry a literal default that their
\* own constraints accept, then schemas that lack one.
LiteralSchemas ==
    { DirSchema((nF :> LeafDefault(sNew, TRUE)), <<nF>>),
      DirSchema((nF :> LeafContent(sNew)) @@ (nL :> LeafSymlink(nT)),
                <<nF, nL>>),
      DirSchema((nDs :> DirSchema((nG :> LeafDefault(sNew, FALSE))
                                      @@ (nL :> LeafSymlink(nF)),
                                  <<nG, nL>>))
                    @@ (nL :> LeafSymlink(nD)), <<nDs, nL>>),
      DirSchema((nF :> LeafTrueDefault(sX)), <<nF>>) }

CliSchemas ==
    LiteralSchemas
        \cup { ReadmeSchema, LibSchema,
               DirSchema((nF :> LeafTrueDefault(sX))
                             @@ (nDs :> DirSchema((nG :> LeafContent(sNew)),
                                                  <<nG>>)),
                         <<nF, nDs>>),
               DirSchema((nF :> [type |-> "object",
                                 properties |->
                                     (kContent :> [const |-> JStr(sNew)]),
                                 required |-> <<kContent>>]), <<nF>>),
               DirSchema((nF :> LeafTrue), <<nF, nL>>),
               BadTypeSchema }

CliRoots == HydrateRoots \cup {ReadmeRoot, LibRoot, FileRoot}

-----------------------------------------------------------------------------
(* The command runs: validate, a file removed behind the tool's back,      *)
(* validate again; or hydrate                                              *)

InitCli ==
    /\ fs \in CliRoots
    /\ schema \in CliSchemas
    /\ plan = <<>>
    /\ planErr = FALSE
    /\ planFs = fs
    /\ applyOpts = [Force |-> FALSE, DryRun |-> FALSE]
    /\ applyErr = FALSE
    /\ applyFs = fs
    /\ walkOpts = NoWalkOpts
    /\ walkOrc = NoOrc
    /\ walkOut = NoWalk
    /\ prevWalk = NoWalk
    /\ result = NoResult
    /\ exitCode = 0
    /\ dsl = JNull
    /\ pc = "start"

\* dirschema validate [--print-instance] --root ROOT SPEC (runValidate).
\* load is what loadSchema returns, writes whether stdout and stderr take
\* what is written to them.  A run that stops at loadSchema ends in
\* "unloaded", one that fails to write the instance or the report in
\* "unwritten".
RunValidate ==
    /\ pc \in {"start", "removed"}
    /\ \E load \in LoadOutcomes, printInstance \in BOOLEAN, writes \in BOOLEAN :
          LET Unwritten(r) ==
                  /\ ~writes
                  /\ r.walk.ok
                  /\ printInstance \/ r.exit = ExitValidation
              Report(r) ==
                  /\ walkOpts' = r.opts
                  /\ walkOut' = r.walk
                  /\ result' = IF ~writes /\ r.walk.ok /\ printInstance
                               THEN NoResult ELSE r.result
                  /\ exitCode' = IF Unwritten(r) THEN ExitConfigError
                                 ELSE r.exit
                  /\ pc' = IF Unwritten(r) THEN "unwritten"
                           ELSE IF pc = "start" THEN "validated"
                           ELSE "revalidated"
          IN  IF load # "ok"
              THEN /\ exitCode' = ExitConfigError
                   /\ pc' = "unloaded"
                   /\ UNCHANGED <<walkOpts, walkOut, result>>
              ELSE Report(WalkAndValidate(fs, schema))
    /\ prevWalk' = walkOut
    /\ UNCHANGED <<dsl, fs, schema, plan, planErr, planFs, applyOpts, applyErr,
                   applyFs, walkOrc>>

\* Somebody removes a file of the root between two runs.
RemoveFile ==
    /\ pc = "validated"
    /\ \E p \in DOMAIN fs :
          /\ Len(p) = 1
          /\ fs[p].kind = "file"
          /\ fs' = Remove(fs, p).fs
    /\ pc' = "removed"
    /\ UNCHANGED <<dsl, schema, plan, planErr, planFs, applyOpts, applyErr, applyFs,
                   walkOpts, walkOrc, walkOut, prevWalk, result, exitCode>>

\* dirschema hydrate [--dry-run] --root ROOT SPEC (runHydrate): plan, then
\* unless dry-run apply with the zero ApplyOptions, walk and validate.
RunHydrate ==
    /\ pc = "start"
    /\ \E dryRun \in BOOLEAN :
          LET Report(r) ==
                  /\ walkOpts' = r.opts
                  /\ walkOut' = r.walk
                  /\ result' = r.result
                  /\ exitCode' = r.exit
              Applied(a) ==
                  /\ fs' = a.fs
                  /\ applyErr' = ~a.ok
                  /\ IF ~a.ok
                     THEN /\ exitCode' = ExitConfigError
                          /\ UNCHANGED <<walkOpts, walkOut, result>>
                     ELSE Report(WalkAndValidate(a.fs, schema))
              Planned(p) ==
                  /\ plan' = p.ops
                  /\ planErr' = ~p.ok
                  /\ applyOpts' = [Force |-> FALSE, DryRun |-> dryRun]
                  /\ IF ~p.ok \/ dryRun
                     THEN /\ exitCode' = IF p.ok THEN ExitSuccess
                                         ELSE ExitConfigError
                          /\ UNCHANGED <<fs, applyErr, walkOpts, walkOut,
                                         result>>
                     ELSE Applied(Apply(fs, p.ops,
                                        [Force |-> FALSE, DryRun |-> FALSE]))
          IN  Planned(BuildPlan(fs, schema))
    /\ planFs' = fs
    /\ applyFs' = fs
    /\ pc' = "hydrated"
    /\ UNCHANGED <<dsl, schema, walkOrc, prevWalk>>

NextCli == RunValidate \/ RemoveFile \/ RunHydrate

SpecCli == InitCli /\ [][NextCli]_vars

-----------------------------------------------------------------------------
(* Inputs of the runs on a DSL spec                                        *)

gAStar == <<"a", "*">>
gAny1 == <<"?">>
gDStarDir == <<"d", "*", "/">>
gUnclosed == <<"[", "a">>
nUpperA == <<"A">>

\* DSL documents that compile: glob keys alone, beside literal keys, under
\* a literal and under a glob directory (expand_test.go); existence-only
\* files beside files with content, size, sha256 and symlink; a list.
GoodDocs ==
    { JObj(gAStar :> JTrue),
      JObj(nDs :> JObj((gAStar :> JTrue) @@ (nC :> JTrue))),
      JObj(gDStarDir :> JObj(gAny1 :> JTrue)),
      JObj((nF :> JTrue) @@ (gAStar :> JNull)),
      JObj((nF :> JObj(kContent :> JStr(sNew))) @@ (nG :> JTrue)),
      JObj((nF :> JObj(kSize :> JNum(3))) @@ (nG :> JNull)
               @@ (nDs :> JObj(nG :> JTrue))),
      JObj((nF :> JObj(kSha256 :> JStr(Sha256Hex(sNew)))) @@ (nA :> JTrue)),
      JObj((nL :> JObj(kSymlink :> JStr(nT))) @@ (nF :> JTrue)),
      JObj((nDs :> JNull) @@ (nF :> JTrue)),
      JList(<<JStr(nF), JObj(nDs :> JList(<<JStr(nG)>>))>>) }

\* Documents ExpandDSL refuses: false, a character class left open, symlink
\* with content, names equal but for case, a string for a file, a root
\* that is a string, a directory that maps to true, an unknown descriptor
\* key, a name twice in a list.
BadDocs ==
    { JObj(nF :> JBool(FALSE)),
      JObj(gUnclosed :> JTrue),
      JObj(nF :> JObj((kSymlink :> JStr(nT)) @@ (kContent :> JStr(sX)))),
      JObj((nUpperA :> JTrue) @@ (nA :> JTrue)),
      JObj(nF :> JStr(sX)),
      JStr(sX),
      JObj(nDs :> JTrue),
      JObj(nF :> JObj(kMode :> JTrue)),
      JList(<<JStr(nF), JStr(nF)>>) }

\* File descriptors that state symlink together with one, two or all of
\* content, size and sha256 (expand_test.go,
\* TestExpandRejectsSymlinkAndContent).
ConflictDescriptors ==
    { (kSymlink :> JStr(nT)) @@ withContent @@ withSize @@ withSha :
        withContent \in {EmptyMap, kContent :> JStr(sX)},
        withSize \in {EmptyMap, kSize :> JNum(3)},
        withSha \in {EmptyMap, kSha256 :> JStr(Sha256Hex(sX))} }
        \ {kSymlink :> JStr(nT)}

\* A descriptor written as a list of one-key maps.
OneKeyItems(d) ==
    [i \in 1..Cardinality(DOMAIN d) |->
        JObj(SortStrings(DOMAIN d)[i] :> d[SortStrings(DOMAIN d)[i]])]

\* Such a descriptor at the root, under a directory, under a glob key, as
\* a list item, and written as a list itself.
ConflictDocs ==
    UNION { { JObj((nL :> JObj(d)) @@ (nF :> JTrue)),
              JObj(nDs :> JObj(nL :> JObj(d))),
              JObj(gAStar :> JObj(d)),
              JList(<<JStr(nF), JObj(nL :> JObj(d))>>),
              JObj(nDs :> JList(<<JObj(nL :> JList(OneKeyItems(d)))>>))
            } : d \in ConflictDescriptors }

nUpperDs == <<"D", "/">>

\* Listings with two names equal but for case, as a list and as a map, at
\* the root and under a directory, of files and of directories
\* (expand_test.go, TestExpandListDSLRejectsDuplicates); list items that
\* are maps with two keys or none.
DuplicateDocs ==
    { JList(<<JStr(nUpperA), JStr(nA)>>),
      JList(<<JStr(nA), JStr(nF), JObj(nUpperA :> JObj(kContent :> JStr(sX)))>>),
      JObj(nDs :> JList(<<JObj(nA :> JTrue), JStr(nUpperA)>>)),
      JObj(nDs :> JObj((nUpperA :> JNull) @@ (nA :> JTrue))),
      JObj((nUpperDs :> JNull) @@ (nDs :> JObj(nG :> JTrue))),
      JList(<<JStr(nDs), JObj(nUpperDs :> JList(<<>>))>>),
      JList(<<JObj((nF :> JTrue) @@ (nG :> JTrue))>>),
      JObj(nDs :> JList(<<JStr(nF), JObj((nA :> JTrue) @@ (nG :> JNull))>>)),
      JList(<<JStr(nF), JObj(EmptyMap)>>) }

\* Files that bear the name of a descriptor key, as a map with value true
\* or null, beside another file, under a directory, and as a list.
AttributeNameDocs ==
    UNION { { JObj(k :> JTrue),
              JObj((k :> JNull) @@ (nF :> JTrue)),
              JObj(nDs :> JObj(k :> JTrue)),
              JList(<<JStr(k)>>) } : k \in {kContent, kSize, kSha256, kSymlink} }

DslDocs ==
    GoodDocs \cup BadDocs \cup ConflictDocs \cup DuplicateDocs
        \cup AttributeNameDocs

\* Names of up to MaxGlobLen characters, glob characters and others, and
\* the globs of TestGlobToRegex the claim quotes; each is the one key of a
\* document.
MaxGlobLen == 3
GlobChars == {"*", "?", "[", "!", "]", "a", ".", "^"}
gStarGo == <<"*", ".", "g", "o">>
gNotAbcTxt == <<"[", "!", "a", "b", "c", "]", ".", "t", "x", "t">>
GlobNames ==
    UNION {[1..n -> GlobChars] : n \in 1..MaxGlobLen}
        \cup {gStarGo, gNotAbcTxt}
GlobDocs == {JObj(g :> JTrue) : g \in GlobNames}

ExpandRoots ==
    { EmptyRoot @@ atA @@ atF @@ atG @@ atD :
        atA \in { EmptyMap, <<nA>> :> FileNode(sOld) },
        atF \in { EmptyMap, <<nF>> :> FileNode(sNew), <<nF>> :> FileNode(sOld) },
        atG \in { EmptyMap, <<nG>> :> FileNode(sOld) },
        atD \in { EmptyMap,
                  <<nD>> :> DirNode,
                  (<<nD>> :> DirNode) @@ (<<nD, nG>> :> FileNode(sOld)),
                  (<<nD>> :> DirNode) @@ (<<nD, nC>> :> FileNode(sOld)) } }

-----------------------------------------------------------------------------
(* The runs on a DSL spec: expand, or validate                             *)

InitExpand ==
    /\ \/ fs \in ExpandRoots /\ dsl \in DslDocs
       \/ fs = EmptyRoot /\ dsl \in GlobDocs
    /\ schema = NilSchema
    /\ plan = <<>>
    /\ planErr = FALSE
    /\ planFs = fs
    /\ applyOpts = [Force |-> FALSE, DryRun |-> FALSE]
    /\ applyErr = FALSE
    /\ applyFs = fs
    /\ walkOpts = NoWalkOpts
    /\ walkOrc = NoOrc
    /\ walkOut = NoWalk
    /\ prevWalk = NoWalk
    /\ result = NoResult
    /\ exitCode = 0
    /\ pc = "start"

\* dirschema expand SPEC (runExpand) on a DSL spec: the compiled schema is
\* written to stdout.
RunExpand ==
    /\ pc = "start"
    /\ \E writes \in BOOLEAN :
          LET Output(x) ==
                  /\ schema' = x.schema
                  /\ exitCode' = IF x.ok /\ writes THEN ExitSuccess
                                 ELSE ExitConfigError
                  /\ pc' = IF ~x.ok THEN "unexpanded"
                           ELSE IF writes THEN "expanded"
                           ELSE "unwritten"
          IN  Output(ExpandDSL(dsl))
    /\ UNCHANGED <<dsl, fs, plan, planErr, planFs, applyOpts, applyErr,
                   applyFs, walkOpts, walkOrc, walkOut, prevWalk, result>>

\* dirschema validate --root ROOT SPEC (runValidate) on a DSL spec:
\* loadSchema expands the document, then the root is walked and validated.
RunValidateDSL ==
    /\ pc = "start"
    /\ \E writes \in BOOLEAN :
          LET Report(r) ==
                  /\ walkOpts' = r.opts
                  /\ walkOut' = r.walk
                  /\ result' = r.result
                  /\ exitCode' = IF r.exit = ExitValidation /\ ~writes
                                 THEN ExitConfigError ELSE r.exit
                  /\ pc' = IF r.exit = ExitValidation /\ ~writes
                           THEN "unwritten" ELSE "validated"
              Loaded(x) ==
                  /\ schema' = x.schema
                  /\ IF ~x.ok
                     THEN /\ exitCode' = ExitConfigError
                          /\ pc' = "unloaded"
                          /\ UNCHANGED <<walkOpts, walkOut, result>>
                     ELSE Report(WalkAndValidate(fs, x.schema))
          IN  Loaded(ExpandDSL(dsl))
    /\ UNCHANGED <<dsl, fs, plan, planErr, planFs, applyOpts, applyErr,
                   applyFs, walkOrc, prevWalk>>

NextExpand == RunExpand \/ RunValidateDSL

SpecExpand == InitExpand /\ [][NextExpand]_vars

-----------------------------------------------------------------------------
(* internal/expand: FormatListDSL, and the export command                  *)

\* dirList: the entries of an instance in sorted key order; a directory as
\* {key: [...]}, a file that is true as its name, an attribute object as
\* {key: object}; anything else is left out.
RECURSIVE dirItems(_, _)
dirItems(node, keys) ==
    IF keys = <<>> THEN <<>>
    ELSE LET key == keys[1]
             value == node[key]
             rest == dirItems(node, Tail(keys))
             Child(child) ==
                 JObj(key :> JList(dirItems(child,
                                            SortStrings(DOMAIN child))))
         IN  IF HasSuffix(key, <<"/">>)
             THEN <<Child(IF value.k = "obj" THEN value.v ELSE EmptyMap)>>
                      \o rest
             ELSE CASE value.k = "bool" ->
                           (IF value.v THEN <<JStr(key)>> ELSE <<>>) \o rest
                    [] value.k = "obj" -> <<JObj(key :> value)>> \o rest
                    [] OTHER -> rest

dirList(node) == dirItems(node, SortStrings(DOMAIN node))

FormatListDSL(instance) == JList(dirList(instance.v))

\* spec.InferKind on a decoded spec that is a list: an empty list is an
\* `empty spec` error.
InferKindOk(root) == ~(root.k = "list" /\ root.v = <<>>)

\* Roots whose entries bear names a directory may hold together: names
\* alike but for case, names with glob characters, names that are DSL
\* descriptor keys; files, links and directories.
ExportRoots ==
    { EmptyRoot @@ atUpperA @@ atA @@ atF @@ atD @@ atGlob @@ atKey :
        atUpperA \in { EmptyMap, <<nUpperA>> :> FileNode(sOld) },
        atA \in { EmptyMap, <<nA>> :> FileNode(sNew), <<nA>> :> DirNode },
        atF \in { EmptyMap, <<nF>> :> FileNode(sNew), <<nF>> :> LinkNode(nT) },
        atD \in { EmptyMap,
                  <<nD>> :> DirNode,
                  (<<nD>> :> DirNode) @@ (<<nD, nG>> :> FileNode(sOld)),
                  (<<nD>> :> DirNode) @@ (<<nD, nG>> :> FileNode(sOld))
                      @@ (<<nD, nL>> :> LinkNode(nG)) },
        atGlob \in { EmptyMap,
                     <<gAStar>> :> FileNode(sOld),
                     <<gUnclosed>> :> FileNode(sOld) },
        atKey \in { EmptyMap,
                    <<kContent>> :> FileNode(sOld),
                    <<kContent>> :> LinkNode(nT) } }

InitExport ==
    /\ fs \in ExportRoots
    /\ dsl = JNull
    /\ schema = NilSchema
    /\ plan = <<>>
    /\ planErr = FALSE
    /\ planFs = fs
    /\ applyOpts = [Force |-> FALSE, DryRun |-> FALSE]
    /\ applyErr = FALSE
    /\ applyFs = fs
    /\ walkOpts = NoWalkOpts
    /\ walkOrc = NoOrc
    /\ walkOut = NoWalk
    /\ prevWalk = NoWalk
    /\ result = NoResult
    /\ exitCode = 0
    /\ pc = "start"

\* dirschema export --root ROOT (runExport): the root is walked with
\* SymlinkRecord and the list form of the instance is written to stdout,
\* here into the spec file of the next run.
RunExport ==
    /\ pc = "start"
    /\ \E writes \in BOOLEAN :
          LET opts == [IncludeSize |-> FALSE, IncludeSHA256 |-> FALSE,
                       IncludeContent |-> FALSE, MaxContentBytes |-> 0,
                       SymlinkPolicy |-> "record"]
              Output(inst) ==
                  /\ walkOut' = inst
                  /\ dsl' = IF inst.ok /\ writes THEN FormatListDSL(inst.val)
                            ELSE dsl
                  /\ exitCode' = IF inst.ok /\ writes THEN ExitSuccess
                                 ELSE ExitConfigError
                  /\ pc' = IF ~inst.ok THEN "unexported"
                           ELSE IF writes THEN "exported" ELSE "unwritten"
          IN  walkOpts' = opts /\ Output(Walk(fs, opts))
    /\ UNCHANGED <<fs, schema, plan, planErr, planFs, applyOpts, applyErr,
                   applyFs, walkOrc, prevWalk, result>>

\* dirschema validate --root ROOT SPEC with the exported list as the spec:
\* loadSchema infers the kind, expands the list, and the root is walked
\* and validated.  prevWalk keeps the instance the export walked.
RunValidateExported ==
    /\ pc = "exported"
    /\ \E writes \in BOOLEAN :
          LET Report(r) ==
                  /\ walkOpts' = r.opts
                  /\ walkOut' = r.walk
                  /\ result' = r.result
                  /\ exitCode' = IF r.exit = ExitValidation /\ ~writes
                                 THEN ExitConfigError ELSE r.exit
                  /\ pc' = IF r.exit = ExitValidation /\ ~writes
                           THEN "unwritten" ELSE "rechecked"
              Loaded(x) ==
                  /\ schema' = x.schema
                  /\ IF ~x.ok
                     THEN /\ exitCode' = ExitConfigError
                          /\ pc' = "unreloaded"
                          /\ UNCHANGED <<walkOpts, walkOut, result>>
                     ELSE Report(WalkAndValidate(fs, x.schema))
          IN  Loaded(IF InferKindOk(dsl) THEN ExpandDSL(dsl) ELSE ExpandErr)
    /\ prevWalk' = walkOut
    /\ UNCHANGED <<dsl, fs, plan, planErr, planFs, applyOpts, applyErr,
                   applyFs, walkOrc>>

NextExport == RunExport \/ RunValidateExported

SpecExport == InitExport /\ [][NextExport]_vars

-----------------------------------------------------------------------------
(* Claims about the command runs                                           *)

ReadmeRootWithoutReadme ==
    EmptyRoot @@ (<<nSrc>> :> DirNode) @@ (<<nSrc, nMainGo>> :> FileNode(sNew))

\* C7: with the schema that requires src/ (with main.go) and README.md, a
\* root that holds both validates; once README.md is removed, validating
\* again reports exactly one item, a `required` violation at the root.
C7_ReadmeScenario ==
    schema = ReadmeSchema =>
        /\ (pc = "validated" /\ fs = ReadmeRoot)
               => (exitCode = ExitSuccess /\ result.Valid)
        /\ (pc = "revalidated" /\ fs = ReadmeRootWithoutReadme)
               => /\ exitCode = ExitValidation
                  /\ ~result.Valid
                  /\ Len(result.Errors) = 1
                  /\ result.Errors[1].InstancePath = <<>>
                  /\ result.Errors[1].Keyword = tRequired

\* C7's case: the scenario ran to its end (the first run saw README.md in
\* the instance, the second did not).
C7_Witness ==
    /\ schema = ReadmeSchema
    /\ pc = "revalidated"
    /\ fs = ReadmeRootWithoutReadme
    /\ prevWalk.ok
    /\ nReadme \in DOMAIN prevWalk.val.v
    /\ nReadme \notin DOMAIN walkOut.val.v

\* The run was a hydrate run that planned, applied and walked without
\* error, under a schema whose required leaves carry literal defaults.
HydratedLiteral ==
    /\ pc = "hydrated"
    /\ schema \in LiteralSchemas
    /\ ~applyOpts.DryRun
    /\ ~planErr
    /\ ~applyErr
    /\ walkOut.ok

\* Nothing, not even a link, sat at a path the schema requires at the
\* root when the run began.
RequiredPathsFree ==
    \A n \in Range(schema.required) :
        Lstat(applyFs, SplitPath(n)) = "none"

LinkedDirs ==
    {p \in DOMAIN fs :
        /\ Len(p) = 1
        /\ fs[p].kind = "link"
        /\ Stat(fs, p) = "dir"
        /\ (p[1] \o <<"/">>) \in DOMAIN schemaProps(schema)}

\* C11: after a validate run, every link to a directory that the schema
\* expects as name/ appears in the instance as the directory name/, and the
\* root with lib -> real-lib validates (exit 0) against the schema that
\* requires src/ with main.go and lib/ with util.go.
C11_SymlinkedSubdirValid ==
    (pc = "validated" /\ walkOut.ok /\ Compiles(schema)) =>
        /\ \A p \in LinkedDirs : (p[1] \o <<"/">>) \in DOMAIN walkOut.val.v
        /\ (fs = LibRoot /\ schema = LibSchema) => exitCode = ExitSuccess

\* The items of the result as the program orders them.
ErrorsSorted ==
    \A i, j \in DOMAIN result.Errors :
        i < j => ~itemLess(result.Errors[j], result.Errors[i])

GlobPatternsOf(item) ==
    { loc.s.propertyNames["not"].pattern :
          loc \in { l \in SubSchemas(schema, <<>>) :
                        /\ item.Keyword = tNot
                        /\ item.SchemaPath = SchemaURL \o l.ptr
                        /\ Has(l.s, "propertyNames")
                        /\ Has(l.s.propertyNames, "not")
                        /\ Has(l.s.propertyNames["not"], "pattern") } }

\* The items as flattenErrors returns them, before the rewrite.
RawItems == flattenErrors(SchemaValidate(schema, walkOut.val).err)

\* C14: the glob-presence rewrite gives keyword glob-presence and message
\* "no entries matching pattern P" to exactly the items whose keyword is
\* `not` and whose schema pointer denotes {propertyNames: {not: {pattern:
\* P}}}; the verdict, the number of items, every path and every other item
\* stay as they were.
C14_RewriteExactlyGlobItems ==
    (pc = "validated" /\ ~SchemaValidate(schema, walkOut.val).ok) =>
        /\ ~result.Valid
        /\ Len(result.Errors) = Len(RawItems)
        /\ \A i \in DOMAIN result.Errors :
               /\ result.Errors[i].InstancePath = RawItems[i].InstancePath
               /\ result.Errors[i].SchemaPath = RawItems[i].SchemaPath
               /\ IF GlobPatternsOf(RawItems[i]) = {}
                  THEN result.Errors[i] = RawItems[i]
                  ELSE /\ result.Errors[i].Keyword = kGlobPresence
                       /\ \E P \in GlobPatternsOf(RawItems[i]) :
                              result.Errors[i].Message
                                  = [fmt |-> "no entries matching pattern %s",
                                     args |-> <<P>>]

\* The schema and root of TestBuildPlanBasic: a directory with one file
\* and a file beside it, nothing of them on disk.
BasicSchema ==
    DirSchema((nDs :> DirSchema((nG :> LeafExists), <<nG>>))
                  @@ (nF :> LeafContent(sNew)), <<nF, nDs>>)

\* C15: the operations BuildPlan returns are in ascending order of RelPath
\* and, for equal RelPath, of Kind; the schema of a directory d/ with g and
\* of a file f yields, on an empty root, mkdir d, writefile d/g,
\* writefile f in that order.
C15_PlanSorted ==
    (pc = "planned" /\ ~planErr) =>
        /\ \A i, j \in DOMAIN plan :
               i < j =>
                   \/ StrLess(plan[i].RelPath, plan[j].RelPath)
                   \/ /\ plan[i].RelPath = plan[j].RelPath
                      /\ KindRank(plan[i].Kind) <= KindRank(plan[j].Kind)
        /\ (planFs = EmptyRoot /\ schema = BasicSchema) =>
               /\ [i \in DOMAIN plan |-> plan[i].Kind]
                      = <<"mkdir", "writefile", "writefile">>
               /\ [i \in DOMAIN plan |-> plan[i].RelPath] = <<nD, sDG, nF>>

\* A plan for the empty root that BuildPlan collected in another order
\* than the one it returns, two operations of it on one RelPath.
C15_Witness ==
    /\ pc = "planned"
    /\ ~planErr
    /\ planFs = EmptyRoot
    /\ collectOps(planFs, schema, <<>>).ops # plan
    /\ \E i, j \in DOMAIN plan :
           i < j /\ plan[i].RelPath = plan[j].RelPath

\* The plan of TestBuildPlanBasic.
C15_WitnessBasic ==
    /\ pc = "planned"
    /\ ~planErr
    /\ planFs = EmptyRoot
    /\ schema = BasicSchema
    /\ Len(plan) = 3

\* The regular files of f longer than the options allow.
Oversized(f, opts) ==
    {p \in DOMAIN f : f[p].kind = "file" /\ Len(f[p].data) > opts.MaxContentBytes}

\* What an instance holds for the file at path p (JTrue when it holds
\* nothing there).
RECURSIVE InstanceAt(_, _)
InstanceAt(v, p) ==
    IF p = <<>> THEN v
    ELSE IF v.k # "obj" THEN JTrue
    ELSE IF Len(p) = 1
    THEN (IF p[1] \in DOMAIN v.v THEN v.v[p[1]] ELSE JTrue)
    ELSE IF (p[1] \o <<"/">>) \in DOMAIN v.v
    THEN InstanceAt(v.v[p[1] \o <<"/">>], Tail(p))
    ELSE JTrue

\* C16: with content or sha256 requested and a maximum set, a regular file
\* longer than the maximum makes the walk fail, and an instance the walk
\* returns holds for every file its whole content and the hash of its
\* whole content, never those of a prefix.
C16_OversizedIsError ==
    (/\ pc \in {"walked", "rewalked"}
     /\ walkOpts.IncludeSHA256 \/ walkOpts.IncludeContent
     /\ walkOpts.MaxContentBytes > 0) =>
        /\ Oversized(fs, walkOpts) # {} => ~walkOut.ok
        /\ walkOut.ok =>
               \A p \in {q \in DOMAIN fs : fs[q].kind = "file"} :
                   LET Held(h) ==
                           h.k = "obj" =>
                               /\ kContent \in DOMAIN h.v
                                      => h.v[kContent] = JStr(fs[p].data)
                               /\ kSha256 \in DOMAIN h.v
                                      => h.v[kSha256]
                                             = JStr(Sha256Hex(fs[p].data))
                   IN  Held(InstanceAt(walkOut.val, p))

\* A walk asked for content under a small maximum that met an oversized
\* file and failed on it.
C16_Witness ==
    /\ pc = "walked"
    /\ walkOpts.IncludeContent
    /\ walkOpts.MaxContentBytes = SmallMaxContentBytes
    /\ Oversized(fs, walkOpts) # {}
    /\ walkOut.err = "too-big"

\* utf8.Valid, for contents of ASCII characters and InvalidByte.
ValidUTF8(data) == \A i \in DOMAIN data : data[i] # InvalidByte

\* The regular files of f whose bytes are no UTF-8 text.
NotUTF8(f) == {p \in DOMAIN f : f[p].kind = "file" /\ ~ValidUTF8(f[p].data)}

\* C17: a regular file whose bytes are not valid UTF-8 makes a walk that
\* was asked for content fail; asked for no content, the walk takes the
\* same file without error.
C17_InvalidUTF8IsError ==
    (pc \in {"walked", "rewalked"} /\ NotUTF8(fs) # {}) =>
        IF walkOpts.IncludeContent THEN ~walkOut.ok
        ELSE \A p \in NotUTF8(fs) \ Oversized(fs, walkOpts) :
                 fileValue(fs, p, walkOpts).ok

\* A validate run ended, however far it came.
ValidateRan == pc \in {"validated", "revalidated", "unwritten", "unloaded"}

\* The run met a spec-load, kind-inference or DSL-expansion error, a failed
\* walk, or a schema that does not compile.
ConfigError == pc = "unloaded" \/ ~walkOut.ok \/ ~Compiles(schema)

\* The exit code is 2 on a configuration error, else 0 exactly when the
\* walked instance satisfies the schema and 1 exactly when it does not.
ExitCodeTellsOutcome ==
    IF ConfigError THEN exitCode = ExitConfigError
    ELSE /\ exitCode = ExitSuccess <=> SchemaValidate(schema, walkOut.val).ok
         /\ exitCode = ExitValidation
                <=> ~SchemaValidate(schema, walkOut.val).ok

\* C18 (as claimed): after any validate run the exit code is 0 exactly
\* when the instance satisfies the schema, 1 exactly when validation finds
\* violations, 2 exactly on a spec-load, kind-inference, DSL-expansion,
\* walk or schema-compile error.
C18_ExitCodesAnyRun ==
    ValidateRan => ExitCodeTellsOutcome

\* C18 (amended): the same for the runs that could write the instance and
\* the report to their output; a run that could not exits 2.
C18_ExitCodesWrittenRuns ==
    /\ (ValidateRan /\ pc # "unwritten") => ExitCodeTellsOutcome
    /\ pc = "unwritten" => exitCode = ExitConfigError

\* C18's case: a first run found the root valid, a file was removed, and
\* the second run found violations and exited 1.
C18_Witness ==
    /\ pc = "revalidated"
    /\ prevWalk.ok
    /\ SchemaValidate(schema, prevWalk.val).ok
    /\ ~result.Valid
    /\ exitCode = ExitValidation

\* A run whose walk failed (the root is a regular file) and that exited 2.
C18_WitnessWalkError ==
    /\ pc = "validated"
    /\ fs = FileRoot
    /\ Compiles(schema)
    /\ ~walkOut.ok
    /\ exitCode = ExitConfigError

\* The key holds one of the glob characters *, ? and [.
HoldsGlobChar(key) ==
    \E i \in DOMAIN key : key[i] = "*" \/ key[i] = "?" \/ key[i] = "["

\* Schema s is what the claim says of the DSL directory node: literal keys
\* under properties and in required, glob keys under patternProperties
\* alone, by an anchored regex; and so on below every directory key.
RECURSIVE DirAsClaimed(_, _)
DirAsClaimed(node, s) ==
    /\ \A key \in DOMAIN node :
           IF HoldsGlobChar(key)
           THEN /\ key \notin DOMAIN schemaProps(s)
                /\ key \notin Range(s.required)
                /\ \E re \in DOMAIN schemaPatterns(s) :
                       /\ re = globToRegex(key).re
                       /\ re[1] = "^" /\ re[Len(re)] = "$"
                       /\ HasSuffix(key, <<"/">>) /\ node[key].k = "obj"
                              => DirAsClaimed(node[key].v,
                                              schemaPatterns(s)[re])
           ELSE /\ key \in DOMAIN schemaProps(s)
                /\ key \in Range(s.required)
                /\ HasSuffix(key, <<"/">>) /\ node[key].k = "obj"
                       => DirAsClaimed(node[key].v, schemaProps(s)[key])
    /\ Len(s.required)
           = Cardinality({key \in DOMAIN node : ~HoldsGlobChar(key)})
    /\ Cardinality(DOMAIN schemaPatterns(s))
           <= Cardinality({key \in DOMAIN node : HoldsGlobChar(key)})

\* The names at the top of the root that a pattern of the schema matches.
MatchedAtRoot ==
    {n \in DOMAIN walkOut.val.v :
        \E re \in DOMAIN schemaPatterns(schema) : MatchString(re, n)}

C19_WitnessNoMatch ==
    /\ pc = "validated"
    /\ dsl = JObj(gAStar :> JTrue)
    /\ DOMAIN walkOut.val.v # {}
    /\ MatchedAtRoot = {}
    /\ result.Valid

\* The literal file keys of a DSL directory whose value is true or null
\* and at which the directory dir of the root holds a regular file.
ExistenceOnlyPresent(node, dir) ==
    {key \in DOMAIN node :
        /\ ~HoldsGlobChar(key)
        /\ ~HasSuffix(key, <<"/">>)
        /\ node[key] \in {JTrue, JNull}
        /\ Lstat(fs, Append(dir, key)) = "file"}

\* Every existence-only file of the DSL directory that is on disk has a
\* value in the instance, true or an attribute object, that its compiled
\* schema accepts; and so on below every literal directory on disk.
RECURSIVE ExistenceHolds(_, _, _, _)
ExistenceHolds(node, dir, s, inst) ==
    /\ \A key \in ExistenceOnlyPresent(node, dir) :
           /\ key \in DOMAIN inst.v
           /\ inst.v[key] = JTrue \/ inst.v[key].k = "obj"
           /\ SchemaValidate(s.properties[key], inst.v[key]).ok
    /\ \A key \in DOMAIN node :
           (/\ ~HoldsGlobChar(key)
            /\ HasSuffix(key, <<"/">>)
            /\ node[key].k = "obj"
            /\ Lstat(fs, Append(dir, TrimSuffix(key, <<"/">>))) = "dir")
               => /\ key \in DOMAIN inst.v
                  /\ ExistenceHolds(node[key].v,
                                    Append(dir, TrimSuffix(key, <<"/">>)),
                                    s.properties[key], inst.v[key])

\* The validation items at the existence-only files at the top of the
\* root.
ExistenceItems ==
    {i \in DOMAIN result.Errors :
        \E key \in ExistenceOnlyPresent(ParseDSL(dsl).val.v, <<>>) :
            IsPrefix(<<"/">> \o escape(key), result.Errors[i].InstancePath)}

\* C20: the schema compiled for a file of DSL value true or null accepts
\* the boolean true and every attribute object; so after a validate run,
\* whatever attributes the pre-scan switched on for the walk, every such
\* file that is on disk validates.
C20_ExistenceOnlyValidates ==
    /\ pc \in {"expanded", "validated"} =>
           \A v \in {JTrue, JObj(EmptyMap), JObj(kSize :> JNum(3)),
                     JObj((kContent :> JStr(sOld))
                              @@ (kSha256 :> JStr(Sha256Hex(sOld))))} :
               SchemaValidate(expandFileValue(JTrue).schema, v).ok
                   /\ SchemaValidate(expandFileValue(JNull).schema, v).ok
    /\ (pc = "validated" /\ walkOut.ok) =>
           /\ ExistenceHolds(ParseDSL(dsl).val.v, <<>>, schema, walkOut.val)
           /\ ExistenceItems = {}

\* C20's case: the pre-scan switched content on for the walk because of
\* another leaf, an existence-only file on disk came out as an attribute
\* object, and the run reported no item about it.
C20_Witness ==
    /\ pc = "validated"
    /\ walkOut.ok
    /\ walkOpts.IncludeContent
    /\ \E key \in ExistenceOnlyPresent(ParseDSL(dsl).val.v, <<>>) :
           /\ walkOut.val.v[key].k = "obj"
           /\ kContent \in DOMAIN walkOut.val.v[key].v
    /\ ~result.Valid
    /\ ExistenceItems = {}

\* The schema without its patternProperties, at every level.
RECURSIVE StripPatterns(_)
StripPatterns(s) ==
    [k \in DOMAIN s \ {"patternProperties"} |->
        IF k = "properties"
        THEN [n \in DOMAIN s.properties |-> StripPatterns(s.properties[n])]
        ELSE s[k]]

\* The schema declares pattern entries at its root.
RootPatterns ==
    IF Has(schema, "patternProperties") THEN DOMAIN schema.patternProperties
    ELSE {}

C21_WitnessPatternsOnly ==
    /\ pc = "planned"
    /\ ~planErr
    /\ RootPatterns # {}
    /\ ~Has(schema, "required") \/ schema.required = <<>>
    /\ plan = <<>>

\* The entries of a DSL listing, a map or a list, as <<name, value>>.
Entries(v) ==
    CASE v.k = "obj" -> {<<k, v.v[k]>> : k \in DOMAIN v.v}
      [] v.k = "list" ->
             UNION { CASE item.k = "str" -> {<<item.v, JTrue>>}
                       [] item.k = "obj" ->
                              {<<k, item.v[k]>> : k \in DOMAIN item.v}
                       [] OTHER -> {} : item \in Range(v.v) }
      [] OTHER -> {}

\* Some file descriptor of the document, at any depth of directories,
\* states symlink together with content, size or sha256.
RECURSIVE HoldsConflict(_)
HoldsConflict(v) ==
    \E e \in Entries(v) :
        IF HasSuffix(e[1], <<"/">>) THEN HoldsConflict(e[2])
        ELSE LET keys == {d[1] : d \in Entries(e[2])}
             IN  kSymlink \in keys /\ keys \cap {kContent, kSize, kSha256} # {}

\* C22: ExpandDSL fails and returns no schema for every document with a
\* file descriptor that states symlink together with content, size or
\* sha256, in every combination and at every place; the expand and the
\* validate command end with the configuration error code.
C22_SymlinkExclusive ==
    HoldsConflict(dsl) =>
        /\ ExpandDSL(dsl) = ExpandErr
        /\ pc \in {"start", "unexpanded", "unloaded"}
        /\ pc # "start" => (schema = NilSchema /\ exitCode = ExitConfigError)

\* C22's case: a document refused for a descriptor with symlink beside
\* size and sha256 but no content, in a list under a directory.
C22_Witness ==
    /\ pc = "unexpanded"
    /\ HoldsConflict(dsl)
    /\ dsl.k = "obj"
    /\ nDs \in DOMAIN dsl.v
    /\ dsl.v[nDs].k = "list"
    /\ \E e \in Entries(dsl.v[nDs]) :
           {d[1] : d \in Entries(e[2])} = {kSymlink, kSize, kSha256}

\* Two names are equal under case-insensitive comparison.
EqualFold(a, b) ==
    /\ Len(a) = Len(b)
    /\ \A i \in DOMAIN a :
           \/ a[i] = b[i]
           \/ {a[i], b[i]} \in {{"A", "a"}, {"C", "c"}, {"D", "d"},
                                {"E", "e"}, {"M", "m"}, {"O", "o"},
                                {"P", "p"}, {"R", "r"}}

\* The names of a list item: the string, or the keys of the map.
ItemNames(item) ==
    CASE item.k = "str" -> {item.v}
      [] item.k = "obj" -> DOMAIN item.v
      [] OTHER -> {}

\* A directory listing, the root or the value of a key ending in /, at any
\* depth, names two entries alike but for case.
RECURSIVE HoldsDuplicate(_)
HoldsDuplicate(v) ==
    \/ /\ v.k = "obj"
       /\ \E k1, k2 \in DOMAIN v.v : k1 # k2 /\ EqualFold(k1, k2)
    \/ /\ v.k = "list"
       /\ \E i, j \in DOMAIN v.v :
              /\ i # j
              /\ \E a \in ItemNames(v.v[i]), b \in ItemNames(v.v[j]) :
                     EqualFold(a, b)
    \/ \E e \in Entries(v) : HasSuffix(e[1], <<"/">>) /\ HoldsDuplicate(e[2])

\* A list of the document, at any depth, has an item that is a map with
\* more than one key.
RECURSIVE HoldsMultiKeyItem(_)
HoldsMultiKeyItem(v) ==
    \/ /\ v.k = "list"
       /\ \E i \in DOMAIN v.v :
              v.v[i].k = "obj" /\ Cardinality(DOMAIN v.v[i].v) > 1
    \/ \E e \in Entries(v) : HoldsMultiKeyItem(e[2])

\* C23: ExpandDSL fails and returns no schema whenever a directory listing
\* names two entries alike but for case, as a list or as a map, and
\* whenever a list item is a map with more than one key.
C23_DuplicatesRejected ==
    (HoldsDuplicate(dsl) \/ HoldsMultiKeyItem(dsl)) =>
        /\ ~ParseDSL(dsl).ok
        /\ ExpandDSL(dsl) = ExpandErr
        /\ pc \in {"start", "unexpanded", "unloaded"}
        /\ pc # "start" => (schema = NilSchema /\ exitCode = ExitConfigError)

\* C23's case: a list under a directory that names a and A and has no
\* other fault was refused.
C23_Witness ==
    /\ pc = "unexpanded"
    /\ HoldsDuplicate(dsl)
    /\ ~HoldsMultiKeyItem(dsl)
    /\ dsl.k = "obj"
    /\ \E k \in DOMAIN dsl.v : dsl.v[k].k = "list"
    /\ schema = NilSchema

\* A list item with two keys, no name twice, was refused.
C23_WitnessMultiKey ==
    /\ pc = "unloaded"
    /\ HoldsMultiKeyItem(dsl)
    /\ ~HoldsDuplicate(dsl)

\* The pattern the claim states for a glob, without the anchors: * gives
\* .*, ? gives ., a class [...] stays, [!...] gives [^...], and . + ^ $
\* ( ) { } | \ get a backslash.  A class ends at the first ] after its
\* first character (after the ! when it is negated).
RECURSIVE ClaimedBody(_)
ClaimedBody(glob) ==
    IF glob = <<>> THEN <<>>
    ELSE IF glob[1] = "*" THEN <<".", "*">> \o ClaimedBody(Tail(glob))
    ELSE IF glob[1] = "?" THEN <<".">> \o ClaimedBody(Tail(glob))
    ELSE IF glob[1] = "["
    THEN LET neg == Len(glob) >= 2 /\ glob[2] = "!"
             from == IF neg THEN 4 ELSE 3
             end == CHOOSE j \in from..Len(glob) :
                        /\ glob[j] = "]"
                        /\ \A i \in from..(j - 1) : glob[i] # "]"
         IN  (IF neg THEN <<"[", "^">> \o SubSeq(glob, 3, end)
              ELSE SubSeq(glob, 1, end))
                 \o ClaimedBody(SubSeq(glob, end + 1, Len(glob)))
    ELSE IF glob[1] \in {".", "+", "^", "$", "(", ")", "{", "}", "|", "\\"}
    THEN <<"\\", glob[1]>> \o ClaimedBody(Tail(glob))
    ELSE <<glob[1]>> \o ClaimedBody(Tail(glob))

\* Some [ of the glob has no ] after it.
Unclosed(glob) ==
    \E i \in DOMAIN glob :
        glob[i] = "[" /\ \A j \in (i + 1)..Len(glob) : glob[j] # "]"

\* The one key of the document of a run on a glob document.
GlobKey == CHOOSE g \in DOMAIN dsl.v : TRUE

GlobRun == dsl \in GlobDocs /\ pc # "start"

\* C24: the pattern globToRegex returns is ^, the glob with * as .*, ? as
\* ., classes kept, [!...] as [^...] and the other metacharacters escaped,
\* then $; *.go gives ^.*\.go$ and [!abc].txt gives ^[^abc]\.txt$; a glob
\* with a [ that is not closed is refused; and the compiled schema holds a
\* glob key's entry under that pattern.
C24_GlobToRegex ==
    GlobRun =>
        /\ globToRegex(GlobKey).ok =>
               globToRegex(GlobKey).re
                   = <<"^">> \o ClaimedBody(GlobKey) \o <<"$">>
        /\ Unclosed(GlobKey) => ~globToRegex(GlobKey).ok
        /\ GlobKey = gStarGo =>
               globToRegex(GlobKey)
                   = [ok |-> TRUE,
                      re |-> <<"^", ".", "*", "\\", ".", "g", "o", "$">>]
        /\ GlobKey = gNotAbcTxt =>
               globToRegex(GlobKey)
                   = [ok |-> TRUE,
                      re |-> <<"^", "[", "^", "a", "b", "c", "]", "\\", ".",
                               "t", "x", "t", "$">>]
        /\ (isGlobPattern(GlobKey) /\ pc = "expanded") =>
               DOMAIN schema.patternProperties = {globToRegex(GlobKey).re}
        /\ (isGlobPattern(GlobKey) /\ ~globToRegex(GlobKey).ok) =>
               pc \in {"unexpanded", "unloaded"}

\* C24's case: the expand command compiled [!abc].txt.
C24_Witness ==
    /\ GlobRun
    /\ pc = "expanded"
    /\ GlobKey = gNotAbcTxt
    /\ DOMAIN schema.patternProperties
           = {<<"^", "[", "^", "a", "b", "c", "]", "\\", ".", "t", "x", "t",
                "$">>}

\* A glob with a class left open was refused.
C24_WitnessUnclosed ==
    /\ GlobRun
    /\ pc = "unexpanded"
    /\ Unclosed(GlobKey)
    /\ Len(GlobKey) = 3

\* A glob whose [ is closed and whose pattern does not parse was refused.
C24_WitnessNotCompiled ==
    /\ GlobRun
    /\ pc = "unexpanded"
    /\ globBody(GlobKey).ok
    /\ ~regexCompiles(<<"^">> \o globBody(GlobKey).re \o <<"$">>)

\* The names of the entries of f.
EntryNames(f) == {p[Len(p)] : p \in DOMAIN f \ {<<>>}}

\* The real paths of the directories on the way down the lexical path p:
\* the root and what every proper prefix of p resolves to.
StackOf(f, p) ==
    {EvalSymlinks(f, SubSeq(p, 1, n)).path : n \in 0..(Len(p) - 1)}

\* Some lexical path of f leads, through directories and links to
\* directories, to a directory that is already on its own way down.
LexicalRevisit(f) ==
    \E p \in [1..1 -> EntryNames(f)] \cup [1..2 -> EntryNames(f)] :
        /\ Stat(f, p) = "dir"
        /\ \A n \in 0..(Len(p) - 1) : Stat(f, SubSeq(p, 1, n)) = "dir"
        /\ EvalSymlinks(f, p).path \in StackOf(f, p)

\* The pairs <<link, dir>> of root entries where the link leads to the
\* directory beside it and the walk descends into the link.
SiblingPairs ==
    {pr \in EntryNames(fs) \X EntryNames(fs) :
        /\ Lstat(fs, <<pr[1]>>) = "link"
        /\ Lstat(fs, <<pr[2]>>) = "dir"
        /\ EvalSymlinks(fs, <<pr[1]>>).ok
        /\ EvalSymlinks(fs, <<pr[1]>>).path = <<pr[2]>>
        /\ \/ ExpectsDir(pr[1])
           \/ IsNil(schema) /\ walkOpts.SymlinkPolicy = "follow"}

\* C25: the walk reports a cycle only for a directory whose real path is
\* that of a directory on the way down to it: the real path of a
\* directory counts while its subtree is walked and no longer once the
\* subtree has returned; so a directory and a sibling link to it that is
\* descended into are both walked, each under its name.
C25_VisitedIsStack ==
    pc \in {"walked", "rewalked"} =>
        /\ walkOut.err = "cycle" => LexicalRevisit(fs)
        /\ walkOut.ok =>
               \A pr \in SiblingPairs :
                   /\ (pr[1] \o <<"/">>) \in DOMAIN walkOut.val.v
                   /\ (pr[2] \o <<"/">>) \in DOMAIN walkOut.val.v
                   /\ walkOut.val.v[pr[1] \o <<"/">>].k = "obj"
                   /\ walkOut.val.v[pr[2] \o <<"/">>].k = "obj"

\* C25's case: a directory with a file in it and a sibling link to it
\* that the schema expects as a directory were walked under both names.
C25_Witness ==
    /\ pc = "walked"
    /\ walkOut.ok
    /\ ~IsNil(schema)
    /\ \E pr \in SiblingPairs :
           /\ StrLess(pr[1], pr[2])
           /\ DOMAIN walkOut.val.v[pr[1] \o <<"/">>].v # {}
           /\ DOMAIN walkOut.val.v[pr[1] \o <<"/">>].v
                  = DOMAIN walkOut.val.v[pr[2] \o <<"/">>].v

\* The run before the second BuildPlan was BuildPlan on the root as it
\* was and a real Apply of its plan that returned no error.
FirstRunHydrated ==
    /\ pc = "replanned"
    /\ ~applyOpts.DryRun
    /\ ~applyErr
    /\ BuildPlan(applyFs, schema).ok
    /\ Apply(applyFs, BuildPlan(applyFs, schema).ops, applyOpts)
           = [ok |-> TRUE, fs |-> fs]

\* C26 (as claimed): after BuildPlan and a successful real Apply, a second
\* BuildPlan on the resulting filesystem returns the empty plan, also for
\* a schema whose required link leaves point at targets that do not exist.
C26_HydrateIdempotent ==
    FirstRunHydrated => (~planErr /\ plan = <<>>)

\* The keys of a DSL mapping that name a file (no / at the end, no glob
\* character) with value true or null.
ExistenceKeys(node) ==
    {k \in DOMAIN node :
        /\ ~HasSuffix(k, <<"/">>)
        /\ ~HoldsGlobChar(k)
        /\ node[k] \in {JTrue, JNull}}

\* The document is a mapping of such keys alone, no two alike but for
\* case.
ExistenceOnlyDoc ==
    /\ dsl.k = "obj"
    /\ DOMAIN dsl.v # {}
    /\ ExistenceKeys(dsl.v) = DOMAIN dsl.v
    /\ \A k1, k2 \in DOMAIN dsl.v : EqualFold(k1, k2) => k1 = k2

\* C27 (as claimed): every mapping key that does not end in / is compiled
\* as a file; with value true or null it gives an existence-only leaf under
\* properties and in required, whatever the name is, also content, size,
\* sha256 or symlink.
C27_FileKeysAnyName ==
    (pc # "start" /\ ExistenceOnlyDoc) =>
        /\ ExpandDSL(dsl).ok
        /\ pc \notin {"unexpanded", "unloaded"}
        /\ \A k \in DOMAIN dsl.v :
               /\ schema.properties[k] = existenceOnlyFileSchema
               /\ k \in Range(schema.required)

\* The same for the names that are no descriptor key.
C27_FileKeysOtherNames ==
    (pc # "start" /\ ExistenceOnlyDoc
        /\ DOMAIN dsl.v \cap {kContent, kSize, kSha256, kSymlink} = {}) =>
        /\ ExpandDSL(dsl).ok
        /\ pc \notin {"unexpanded", "unloaded"}
        /\ \A k \in DOMAIN dsl.v :
               /\ schema.properties[k] = existenceOnlyFileSchema
               /\ k \in Range(schema.required)

\* The directory shape as the claim words it: the name ends in /, or the
\* properties hold a key ending in /, or the properties are not drawn
\* solely from the file-descriptor keys.
ClaimedDirectory(s, name) ==
    \/ HasSuffix(name, <<"/">>)
    \/ /\ Has(s, "properties")
       /\ \/ \E key \in DOMAIN s.properties : HasSuffix(key, <<"/">>)
          \/ ~(DOMAIN s.properties
                   \subseteq {kSize, kSha256, kContent, kMode, kSymlink,
                              kDefaultContent, kOverwritable})

\* The required names of the root at whose path nothing is on disk.
MissingRequired ==
    {n \in Range(schema.required) :
        /\ n \in DOMAIN schema.properties
        /\ ~pathExists(planFs, <<TrimSuffix(n, <<"/">>)>>)}

\* The plan treats the missing required entry n of the root as the shape
\* says: MakeDirectory for a directory, WriteFile or MakeSymlink for a file
\* leaf.
PlannedAs(n, isDir) ==
    \E i \in DOMAIN plan :
        /\ plan[i].Path = <<TrimSuffix(n, <<"/">>)>>
        /\ plan[i].Kind = "mkdir" <=> isDir

\* C28 (as claimed): a required entry is planned as a directory exactly
\* when its name ends in /, or its properties hold a key ending in /, or
\* its properties are not drawn solely from the file-descriptor keys; every
\* other one, also without properties or with empty properties, is planned
\* as a file leaf.
C28_DirectoryShape ==
    (pc = "planned" /\ ~planErr) =>
        \A n \in MissingRequired :
            PlannedAs(n, ClaimedDirectory(schema.properties[n], n))

\* The same for the entries whose properties, if any, are not empty.
C28_DirectoryShapeNonEmpty ==
    (pc = "planned" /\ ~planErr) =>
        \A n \in MissingRequired :
            (Has(schema.properties[n], "properties")
                => DOMAIN schema.properties[n].properties # {})
                => PlannedAs(n, ClaimedDirectory(schema.properties[n], n))

\* Operation i of the plan makes a directory in which the target of
\* operation j lies.
MakesParentOf(i, j) ==
    /\ plan[i].Kind = "mkdir"
    /\ plan[i].Path # plan[j].Path
    /\ IsPrefix(plan[i].Path, plan[j].Path)

\* The plan at hand is the one BuildPlan returned for the root.
PlanIsBuilt ==
    \/ pc = "planned" /\ ~planErr
    \/ /\ pc = "applied"
       /\ BuildPlan(applyFs, schema).ok
       /\ plan = BuildPlan(applyFs, schema).ops

\* C29: in a plan of BuildPlan the MakeDirectory of a directory stands
\* before every operation with a target inside it; and when a real Apply
\* comes to an operation, every planned directory above its target has
\* been made.
C29_ParentsFirst ==
    PlanIsBuilt =>
        /\ \A i, j \in DOMAIN plan : MakesParentOf(i, j) => i < j
        /\ (pc = "applied" /\ ~applyOpts.DryRun) =>
               \A i, j \in DOMAIN plan :
                   (/\ MakesParentOf(i, j)
                    /\ Apply(applyFs, SubSeq(plan, 1, j - 1), applyOpts).ok)
                       => Stat(Apply(applyFs, SubSeq(plan, 1, j - 1),
                                     applyOpts).fs, plan[i].Path) = "dir"

\* C29's case: a real Apply ran a plan that makes a directory, writes a
\* file and makes a link inside it, and operations outside it.
C29_Witness ==
    /\ PlanIsBuilt
    /\ pc = "applied"
    /\ ~applyOpts.DryRun
    /\ ~applyErr
    /\ \E i, j, k \in DOMAIN plan :
           /\ MakesParentOf(i, j) /\ plan[j].Kind = "writefile"
           /\ MakesParentOf(i, k) /\ plan[k].Kind = "symlink"
    /\ \E i \in DOMAIN plan : Len(plan[i].Path) = 1 /\ plan[i].Kind = "symlink"

\* The export ran and the exported list was given to validate.
RoundTripped == pc \in {"rechecked", "unreloaded"}

\* Every name of the root, at any depth, is free of glob characters, is no
\* descriptor key, and differs from its siblings by more than case.
PlainNames(f) ==
    /\ \A p \in DOMAIN f \ {<<>>} :
           /\ ~HoldsGlobChar(p[Len(p)])
           /\ p[Len(p)] \notin {kContent, kSize, kSha256, kSymlink}
    /\ \A p, q \in DOMAIN f \ {<<>>} :
           (/\ ParentOf(p) = ParentOf(q)
            /\ EqualFold(p[Len(p)], q[Len(q)])) => p = q

\* C30 (as claimed): the list FormatListDSL makes of the instance Walk
\* returns (SymlinkRecord) is accepted by ExpandDSL, and the instance
\* validates against the schema ExpandDSL returns, for every set of entry
\* names a directory can hold.
C30_ExportRoundTrip ==
    RoundTripped =>
        /\ dsl = FormatListDSL(prevWalk.val)
        /\ ExpandDSL(dsl).ok
        /\ Validate(ExpandDSL(dsl).schema, prevWalk.val).Valid

\* The same for roots of plain names.
C30_ExportRoundTripPlainNames ==
    (RoundTripped /\ PlainNames(fs)) =>
        /\ dsl = FormatListDSL(prevWalk.val)
        /\ ExpandDSL(dsl).ok
        /\ Validate(ExpandDSL(dsl).schema, prevWalk.val).Valid
        /\ fs # EmptyRoot =>
               (pc = "rechecked" /\ result.Valid /\ exitCode = ExitSuccess)

\* A round trip that holds: files, a link and a directory with a file and
\* a link in it.
C30_WitnessPlainNames ==
    /\ pc = "rechecked"
    /\ PlainNames(fs)
    /\ result.Valid
    /\ Lstat(fs, <<nF>>) = "link"
    /\ Lstat(fs, <<nD, nL>>) = "link"
    /\ Lstat(fs, <<nA>>) = "file"

====
